---- MODULE Spec2Model ----
(***************************************************************************)
(* Guardian-weighted threshold recovery of SovSeal.                        *)
(*                                                                         *)
(*   Registry      packages/contracts/src/SovSealRecovery.sol              *)
(*   Orchestrator  lib/recovery/RecoveryOrchestrator.ts                    *)
(*                                                                         *)
(* The registry is a contract: every call is one atomic transaction, and a *)
(* call that reverts leaves the chain state untouched.  For each external  *)
(* function F the operator FRevert gives the custom error the call reverts *)
(* with ("none" when it goes through), its checks in the order of the      *)
(* code; the action F is the call that goes through.                       *)
(***************************************************************************)
EXTENDS Integers, Sequences, FiniteSets, TLC

VARIABLES
    guardians,          \* mapping(address => Guardian[])
    thresholds,         \* mapping(address => uint256)
    recoveryRequests,   \* mapping(uint256 => RecoveryRequest), ids 1..recoveryCount
    recoveryCount,      \* uint256
    activeRecovery,     \* mapping(address => uint256)
    blockTimestamp,     \* block.timestamp, seconds
    txCount,            \* transactions mined so far (every call below is one)
    sessionsStore,      \* localStorage["sovseal_recovery_sessions"], parsed
    sharesStore,        \* localStorage["sovseal_shares_<sessionId>"], parsed, per session id
    now,                \* Date.now(), milliseconds
    uuidCount,          \* ids handed out by crypto.randomUUID()
    gmThreshold,        \* GuardianManager: the threshold of the configured owner
    calls,              \* the orchestrator calls in flight, one per caller
    callers,            \* the callers (tabs) that use the orchestrator in this run
    callBudget,         \* orchestrator calls that may still be started in this run
    shamir              \* the last ShamirService call made directly: arguments and outcome

regVars == <<guardians, thresholds, recoveryRequests, recoveryCount,
             activeRecovery, blockTimestamp, txCount>>

orchVars == <<sessionsStore, sharesStore, now, uuidCount, gmThreshold, calls, callers, callBudget,
              shamir>>

vars == <<guardians, thresholds, recoveryRequests, recoveryCount,
          activeRecovery, blockTimestamp, txCount,
          sessionsStore, sharesStore, now, uuidCount, gmThreshold, calls, callers, callBudget,
          shamir>>

(***************************************************************************)
(* Program constants of the registry.                                      *)
(***************************************************************************)
RECOVERY_DELAY == 604800
MIN_THRESHOLD == 2
MAX_GUARDIANS == 10

(***************************************************************************)
(* Bounds of the model and the inputs the calls are drawn from.            *)
(***************************************************************************)
MaxTx == 10             \* transactions in a run
MaxRequests == 2        \* initiateRecovery is called while recoveryCount < MaxRequests
MaxListLen == 3         \* addGuardian is called while the caller's list is shorter
MaxRemovals == 1        \* removeGuardian is called while fewer entries are inactive

ZeroAddress == 0
Addr == {1, 2, 3, 4}
AddrOrZero == Addr \cup {ZeroAddress}
OwnerAccts == {1, 2}                                 \* accounts that configure guardians
GuardianInputs == {<<2, 3>>, <<3, 1>>, <<4, 1>>}     \* (guardian, weight) given to addGuardian
ThresholdInputs == {2, 3}
TimePoints == {RECOVERY_DELAY, RECOVERY_DELAY + 1}   \* block timestamps sampled

(***************************************************************************)
(* Helpers                                                                 *)
(***************************************************************************)

RECURSIVE SumWeights(_)
SumWeights(list) ==
    IF list = <<>> THEN 0
    ELSE (IF Head(list).isActive THEN Head(list).weight ELSE 0) + SumWeights(Tail(list))

IsActiveEntry(e) == e.isActive

ActiveEntries(list) == SelectSeq(list, IsActiveEntry)

\* getGuardians: the active entries of the owner's list, in order
getGuardians(owner) == ActiveEntries(guardians[owner])

\* _isGuardian that forgets the isActive flag
isGuardianIgnoringActive(owner, guardian) ==
    \E i \in DOMAIN guardians[owner] : guardians[owner][i].addr = guardian

\* _isGuardian
isGuardian(owner, guardian) ==
    \E i \in DOMAIN guardians[owner] :
        guardians[owner][i].addr = guardian /\ guardians[owner][i].isActive

\* _getGuardianWeight: the weight of the first active entry with that address
getGuardianWeight(owner, guardian) ==
    IF isGuardian(owner, guardian)
    THEN LET i == CHOOSE k \in DOMAIN guardians[owner] :
                    /\ guardians[owner][k].addr = guardian
                    /\ guardians[owner][k].isActive
                    /\ \A j \in 1 .. (k - 1) :
                          ~(guardians[owner][j].addr = guardian /\ guardians[owner][j].isActive)
         IN  guardians[owner][i].weight
    ELSE 0

\* _getTotalGuardianWeight that counts the removed entries too
getTotalGuardianWeightCountingRemoved(owner) ==
    SumWeights([i \in DOMAIN guardians[owner] |->
                  [guardians[owner][i] EXCEPT !.isActive = TRUE]])

\* _getTotalGuardianWeight
getTotalGuardianWeight(owner) == SumWeights(guardians[owner])

ZeroRequest ==
    [owner |-> ZeroAddress, newOwner |-> ZeroAddress, threshold |-> 0,
     approvalWeight |-> 0, initiatedAt |-> 0, executeAfter |-> 0,
     executed |-> FALSE, cancelled |-> FALSE, hasApproved |-> {}]

\* recoveryRequests[requestId]: an id never written reads as the zero struct
Request(requestId) ==
    IF requestId \in DOMAIN recoveryRequests THEN recoveryRequests[requestId] ELSE ZeroRequest

RequestIds == 1 .. recoveryCount

NumInactive ==
    Cardinality({<<o, i>> \in Addr \X (1 .. (2 * MAX_GUARDIANS)) :
                    i \in DOMAIN guardians[o] /\ ~guardians[o][i].isActive})

\* one more transaction is mined
Mined ==
    /\ txCount < MaxTx
    /\ txCount' = txCount + 1
    /\ UNCHANGED orchVars

(***************************************************************************)
(* Guardian management                                                     *)
(***************************************************************************)
\* addGuardian without the check for an active duplicate
addGuardianRevertNoDuplicateCheck(sender, guardian, weight) ==
    IF guardian = ZeroAddress THEN "InvalidAddress"
    ELSE IF guardian = sender THEN "InvalidAddress"
    ELSE IF Len(guardians[sender]) >= MAX_GUARDIANS THEN "MaxGuardiansReached"
    ELSE IF weight = 0 THEN "InvalidThreshold"
    ELSE "none"

\* addGuardian whose cap counts the active entries only
addGuardianRevertCountingActive(sender, guardian, weight) ==
    IF guardian = ZeroAddress THEN "InvalidAddress"
    ELSE IF guardian = sender THEN "InvalidAddress"
    ELSE IF Len(ActiveEntries(guardians[sender])) >= MAX_GUARDIANS THEN "MaxGuardiansReached"
    ELSE IF weight = 0 THEN "InvalidThreshold"
    ELSE IF isGuardian(sender, guardian) THEN "GuardianAlreadyExists"
    ELSE "none"

addGuardianRevert(sender, guardian, weight) ==
    IF guardian = ZeroAddress THEN "InvalidAddress"
    ELSE IF guardian = sender THEN "InvalidAddress"
    ELSE IF Len(guardians[sender]) >= MAX_GUARDIANS THEN "MaxGuardiansReached"
    ELSE IF weight = 0 THEN "InvalidThreshold"
    ELSE IF isGuardian(sender, guardian) THEN "GuardianAlreadyExists"
    ELSE "none"

addGuardian(sender, guardian, weight) ==
    /\ addGuardianRevert(sender, guardian, weight) = "none"
    /\ Len(guardians[sender]) < MaxListLen
    /\ guardians' = [guardians EXCEPT ![sender] =
                        Append(@, [addr |-> guardian, weight |-> weight, isActive |-> TRUE])]
    /\ UNCHANGED <<thresholds, recoveryRequests, recoveryCount, activeRecovery, blockTimestamp>>
    /\ Mined

removeGuardianRevert(sender, guardian) ==
    IF ~isGuardian(sender, guardian) THEN "GuardianNotFound" ELSE "none"

\* removeGuardian that also withdraws the guardian's approval of the owner's
\* active request
removeGuardianRevokingApprovals(sender, guardian) ==
    /\ removeGuardianRevert(sender, guardian) = "none"
    /\ NumInactive < MaxRemovals
    /\ LET list == guardians[sender]
           i == CHOOSE k \in DOMAIN list :
                    /\ list[k].addr = guardian /\ list[k].isActive
                    /\ \A j \in 1 .. (k - 1) : ~(list[j].addr = guardian /\ list[j].isActive)
           requestId == activeRecovery[sender]
       IN  /\ guardians' = [guardians EXCEPT ![sender][i].isActive = FALSE]
           /\ recoveryRequests' =
                 IF requestId # 0 /\ guardian \in Request(requestId).hasApproved
                 THEN [recoveryRequests EXCEPT ![requestId] =
                         [@ EXCEPT !.hasApproved = @ \ {guardian},
                                   !.approvalWeight = @ - list[i].weight]]
                 ELSE recoveryRequests
    /\ UNCHANGED <<thresholds, recoveryCount, activeRecovery, blockTimestamp>>
    /\ Mined

removeGuardian(sender, guardian) ==
    /\ removeGuardianRevert(sender, guardian) = "none"
    /\ NumInactive < MaxRemovals
    /\ LET list == guardians[sender]
           i == CHOOSE k \in DOMAIN list :
                    /\ list[k].addr = guardian /\ list[k].isActive
                    /\ \A j \in 1 .. (k - 1) : ~(list[j].addr = guardian /\ list[j].isActive)
       IN  guardians' = [guardians EXCEPT ![sender][i].isActive = FALSE]
    /\ UNCHANGED <<thresholds, recoveryRequests, recoveryCount, activeRecovery, blockTimestamp>>
    /\ Mined

setThresholdRevert(sender, newThreshold) ==
    IF newThreshold < MIN_THRESHOLD THEN "InvalidThreshold"
    ELSE IF newThreshold > getTotalGuardianWeight(sender) THEN "InvalidThreshold"
    ELSE "none"

setThreshold(sender, newThreshold) ==
    /\ setThresholdRevert(sender, newThreshold) = "none"
    /\ thresholds' = [thresholds EXCEPT ![sender] = newThreshold]
    /\ UNCHANGED <<guardians, recoveryRequests, recoveryCount, activeRecovery, blockTimestamp>>
    /\ Mined

(***************************************************************************)
(* Recovery flow                                                           *)
(***************************************************************************)
\* initiateRecovery without the activeRecovery check
initiateRecoveryRevertNoActiveCheck(sender, owner, newOwner) ==
    IF owner = ZeroAddress THEN "InvalidAddress"
    ELSE IF newOwner = ZeroAddress THEN "InvalidAddress"
    ELSE IF owner = newOwner THEN "InvalidAddress"
    ELSE IF ~isGuardian(owner, sender) THEN "NotGuardian"
    ELSE IF thresholds[owner] < MIN_THRESHOLD THEN "InvalidThreshold"
    ELSE "none"

initiateRecoveryRevert(sender, owner, newOwner) ==
    IF owner = ZeroAddress THEN "InvalidAddress"
    ELSE IF newOwner = ZeroAddress THEN "InvalidAddress"
    ELSE IF owner = newOwner THEN "InvalidAddress"
    ELSE IF activeRecovery[owner] # 0 THEN "RecoveryAlreadyActive"
    ELSE IF ~isGuardian(owner, sender) THEN "NotGuardian"
    ELSE IF thresholds[owner] < MIN_THRESHOLD THEN "InvalidThreshold"
    ELSE "none"

initiateRecovery(sender, owner, newOwner) ==
    /\ initiateRecoveryRevert(sender, owner, newOwner) = "none"
    /\ recoveryCount < MaxRequests
    /\ LET requestId == recoveryCount + 1
       IN  /\ recoveryCount' = requestId
           /\ recoveryRequests' =
                 [id \in 1 .. requestId |->
                    IF id = requestId
                    THEN [owner |-> owner, newOwner |-> newOwner,
                          threshold |-> thresholds[owner], approvalWeight |-> 0,
                          initiatedAt |-> blockTimestamp,
                          executeAfter |-> blockTimestamp + RECOVERY_DELAY,
                          executed |-> FALSE, cancelled |-> FALSE, hasApproved |-> {}]
                    ELSE recoveryRequests[id]]
           /\ activeRecovery' = [activeRecovery EXCEPT ![owner] = requestId]
    /\ UNCHANGED <<guardians, thresholds, blockTimestamp>>
    /\ Mined

\* approveRecovery without the hasApproved check
approveRecoveryRevertNoDuplicateCheck(sender, requestId) ==
    LET request == Request(requestId)
    IN  IF request.owner = ZeroAddress THEN "NoActiveRecovery"
        ELSE IF request.executed THEN "RecoveryAlreadyExecuted"
        ELSE IF request.cancelled THEN "RecoveryAlreadyCancelled"
        ELSE IF ~isGuardian(request.owner, sender) THEN "NotGuardian"
        ELSE "none"

approveRecoveryRevert(sender, requestId) ==
    LET request == Request(requestId)
    IN  IF request.owner = ZeroAddress THEN "NoActiveRecovery"
        ELSE IF request.executed THEN "RecoveryAlreadyExecuted"
        ELSE IF request.cancelled THEN "RecoveryAlreadyCancelled"
        ELSE IF sender \in request.hasApproved THEN "RecoveryAlreadyApproved"
        ELSE IF ~isGuardian(request.owner, sender) THEN "NotGuardian"
        ELSE "none"

approveRecovery(sender, requestId) ==
    /\ approveRecoveryRevert(sender, requestId) = "none"
    /\ LET request == Request(requestId)
           weight == getGuardianWeight(request.owner, sender)
       IN  recoveryRequests' =
              [recoveryRequests EXCEPT ![requestId] =
                  [@ EXCEPT !.hasApproved = @ \cup {sender},
                            !.approvalWeight = @ + weight]]
    /\ UNCHANGED <<guardians, thresholds, recoveryCount, activeRecovery, blockTimestamp>>
    /\ Mined

\* executeRecovery without the time-lock check
executeRecoveryRevertNoTimeLock(requestId) ==
    LET request == Request(requestId)
    IN  IF request.owner = ZeroAddress THEN "NoActiveRecovery"
        ELSE IF request.executed THEN "RecoveryAlreadyExecuted"
        ELSE IF request.cancelled THEN "RecoveryAlreadyCancelled"
        ELSE IF request.approvalWeight < request.threshold THEN "ThresholdNotMet"
        ELSE "none"

executeRecoveryRevert(requestId) ==
    LET request == Request(requestId)
    IN  IF request.owner = ZeroAddress THEN "NoActiveRecovery"
        ELSE IF request.executed THEN "RecoveryAlreadyExecuted"
        ELSE IF request.cancelled THEN "RecoveryAlreadyCancelled"
        ELSE IF blockTimestamp < request.executeAfter THEN "TimeLockNotExpired"
        ELSE IF request.approvalWeight < request.threshold THEN "ThresholdNotMet"
        ELSE "none"

executeRecovery(sender, requestId) ==
    /\ executeRecoveryRevert(requestId) = "none"
    /\ LET request == Request(requestId)
       IN  /\ recoveryRequests' = [recoveryRequests EXCEPT ![requestId].executed = TRUE]
           /\ activeRecovery' = [activeRecovery EXCEPT ![request.owner] = 0]
           /\ guardians' = [guardians EXCEPT ![request.newOwner] =
                               @ \o ActiveEntries(guardians[request.owner])]
           /\ thresholds' = [thresholds EXCEPT ![request.newOwner] = thresholds[request.owner]]
    /\ UNCHANGED <<recoveryCount, blockTimestamp>>
    /\ Mined

\* cancelRecovery without the executed check
cancelRecoveryRevertNoExecutedCheck(sender, requestId) ==
    LET request == Request(requestId)
    IN  IF request.owner = ZeroAddress THEN "NoActiveRecovery"
        ELSE IF request.cancelled THEN "RecoveryAlreadyCancelled"
        ELSE IF ~(sender = request.owner) /\ ~isGuardian(request.owner, sender) THEN "NotGuardian"
        ELSE "none"

\* cancelRecovery that only guardians may call
cancelRecoveryRevertGuardianOnly(sender, requestId) ==
    LET request == Request(requestId)
    IN  IF request.owner = ZeroAddress THEN "NoActiveRecovery"
        ELSE IF request.executed THEN "RecoveryAlreadyExecuted"
        ELSE IF request.cancelled THEN "RecoveryAlreadyCancelled"
        ELSE IF ~isGuardian(request.owner, sender) THEN "NotGuardian"
        ELSE "none"

cancelRecoveryRevert(sender, requestId) ==
    LET request == Request(requestId)
    IN  IF request.owner = ZeroAddress THEN "NoActiveRecovery"
        ELSE IF request.executed THEN "RecoveryAlreadyExecuted"
        ELSE IF request.cancelled THEN "RecoveryAlreadyCancelled"
        ELSE IF ~(sender = request.owner) /\ ~isGuardian(request.owner, sender) THEN "NotGuardian"
        ELSE "none"

\* cancelRecovery that leaves the owner's activeRecovery slot taken
cancelRecoveryKeepingActive(sender, requestId) ==
    /\ cancelRecoveryRevert(sender, requestId) = "none"
    /\ recoveryRequests' = [recoveryRequests EXCEPT ![requestId].cancelled = TRUE]
    /\ UNCHANGED <<guardians, thresholds, recoveryCount, activeRecovery, blockTimestamp>>
    /\ Mined

cancelRecovery(sender, requestId) ==
    /\ cancelRecoveryRevert(sender, requestId) = "none"
    /\ LET request == Request(requestId)
       IN  /\ recoveryRequests' = [recoveryRequests EXCEPT ![requestId].cancelled = TRUE]
           /\ activeRecovery' = [activeRecovery EXCEPT ![request.owner] = 0]
    /\ UNCHANGED <<guardians, thresholds, recoveryCount, blockTimestamp>>
    /\ Mined

\* block.timestamp moves forward between blocks
MineBlock(t) ==
    /\ t > blockTimestamp
    /\ blockTimestamp' = t
    /\ UNCHANGED <<guardians, thresholds, recoveryRequests, recoveryCount, activeRecovery>>
    /\ Mined

(***************************************************************************)
(* RecoveryOrchestrator.  Its methods are async functions over a shared    *)
(* localStorage: a method runs atomically from one await to the next, and  *)
(* the methods of different callers interleave at the awaits.  Each action *)
(* below is one such stretch of one call; what it read before the await is *)
(* kept in the call's record.  GuardianManager is configured before the    *)
(* run and answers from that configuration.                                *)
(***************************************************************************)
RECOVERY_DELAY_MS == 604800000
SHAMIR_MIN_THRESHOLD == 2
MAX_SHARES == 255

MaxCalls == 5           \* orchestrator calls started in a run of one caller
MaxConcCalls == 3       \* orchestrator calls started in a run of two callers
MaxSessions == 2        \* sessions created in a run

Procs == {1, 2}
Absent == 0 - 1         \* an optional number that is not set
OwnerInputs == {"0xA1", "0xa1", "0xf6", ""}
NewOwnerInputs == {"0xB2", "0xa1", ""}
GuardianAddressInputs == {"0xC3", "0xd4", "0xe5", "0xf7", "0x99"}
CancellerInputs == {"0xA1", "0xd4", "0x99"}
EncodedShareInputs == {"AQc=", "Agk=", "AAc="}
SessionIdInputs == 0 .. MaxSessions
OrchTimePoints == {RECOVERY_DELAY_MS - 1, RECOVERY_DELAY_MS}
GMThresholdInputs == {2}

\* String.prototype.toLowerCase on the addresses used
ToLowerCase(a) ==
    CASE a = "0xA1" -> "0xa1"
      [] a = "0xB2" -> "0xb2"
      [] a = "0xC3" -> "0xc3"
      [] OTHER -> a

\* ShamirService.decodeShare: the bytes a base64 string stands for
decodeShare(encoded) ==
    CASE encoded = "AQc=" -> <<1, 7>>
      [] encoded = "Agk=" -> <<2, 9>>
      [] encoded = "AAc=" -> <<0, 7>>
      [] encoded = "AQ==" -> <<1>>
      [] OTHER -> <<>>

\* GuardianManager: the guardians registered for owner 0xa1
GMGuardianList ==
    << [id |-> "g1", address |-> "0xC3", weight |-> 3, status |-> "active"],
       [id |-> "g2", address |-> "0xd4", weight |-> 1, status |-> "active"],
       [id |-> "g3", address |-> "0xe5", weight |-> 1, status |-> "active"],
       [id |-> "g4", address |-> "0xf7", weight |-> 1, status |-> "revoked"] >>

IsActiveGuardian(g) == g.status = "active"

\* GuardianManager.getGuardians: the active guardians of the owner
GM_getGuardians(userAddress) ==
    IF ToLowerCase(userAddress) = "0xa1" THEN SelectSeq(GMGuardianList, IsActiveGuardian) ELSE <<>>

RECURSIVE SumGuardianWeights(_)
SumGuardianWeights(list) ==
    IF list = <<>> THEN 0 ELSE Head(list).weight + SumGuardianWeights(Tail(list))

\* GuardianManager.isRecoveryConfigured: a threshold is set and that much
\* active guardian weight exists
GM_isRecoveryConfigured(userAddress) ==
    /\ ToLowerCase(userAddress) = "0xa1"
    /\ gmThreshold > 0
    /\ SumGuardianWeights(GM_getGuardians(userAddress)) >= gmThreshold

\* GuardianManager.getRecoveryConfig(userAddress).threshold
GM_getRecoveryConfigThreshold(userAddress) == gmThreshold

\* guardians.find(g => g.address.toLowerCase() === guardianAddress.toLowerCase())
FindGuardian(list, guardianAddress) ==
    LET hits == {i \in DOMAIN list : ToLowerCase(list[i].address) = ToLowerCase(guardianAddress)}
    IN  IF hits = {} THEN [found |-> FALSE, id |-> ""]
        ELSE [found |-> TRUE, id |-> list[CHOOSE i \in hits : \A j \in hits : i <= j].id]

NoSession ==
    [id |-> 0, userAddress |-> "", newOwnerAddress |-> "", status |-> "none",
     threshold |-> 0, collectedShares |-> <<>>, initiatedAt |-> Absent,
     executeAfter |-> Absent, executedAt |-> Absent, cancelledAt |-> Absent]

FirstIndex(hits) == CHOOSE i \in hits : \A j \in hits : i <= j

\* getSession on the sessions read: sessions.find(s => s.id === sessionId) || null
FindSession(sessions, sessionId) ==
    LET hits == {i \in DOMAIN sessions : sessions[i].id = sessionId}
    IN  IF hits = {} THEN NoSession ELSE sessions[FirstIndex(hits)]

\* getActiveSession on the sessions read
FindActiveSession(sessions, userAddress) ==
    LET hits == {i \in DOMAIN sessions :
                    /\ ToLowerCase(sessions[i].userAddress) = ToLowerCase(userAddress)
                    /\ sessions[i].status # "executed"
                    /\ sessions[i].status # "cancelled"}
    IN  IF hits = {} THEN NoSession ELSE sessions[FirstIndex(hits)]

\* saveSession after its await: the list it read, with the session put in
PutSession(sessions, session) ==
    LET hits == {i \in DOMAIN sessions : sessions[i].id = session.id}
    IN  IF hits # {} THEN [sessions EXCEPT ![FirstIndex(hits)] = session]
        ELSE Append(sessions, session)

\* storeSubmittedShare: shares[guardianId] = encryptedShare, keys in insertion order
PutShare(entries, guardianId, encryptedShare) ==
    LET hits == {i \in DOMAIN entries : entries[i][1] = guardianId}
    IN  IF hits # {} THEN [entries EXCEPT ![FirstIndex(hits)] = <<guardianId, encryptedShare>>]
        ELSE Append(entries, <<guardianId, encryptedShare>>)

\* getSubmittedShares: Object.values(sharesMap).map(decodeShare)
getSubmittedShares(sessionId) ==
    [i \in DOMAIN sharesStore[sessionId] |-> decodeShare(sharesStore[sessionId][i][2])]

\* ShamirService.isValidShare
isValidShare(share) ==
    /\ Len(share) >= 2
    /\ share[1] >= 1
    /\ share[1] <= MAX_SHARES

\* combine of shamir-secret-sharing: refuses shares of different lengths or
\* with a repeated index, otherwise interpolates
LibCombine(shares) ==
    IF \E i, j \in DOMAIN shares :
          \/ Len(shares[i]) # Len(shares[j])
          \/ (i # j /\ shares[i][1] = shares[j][1])
    THEN [ok |-> FALSE, error |-> "Failed to reconstruct secret", secret |-> <<>>]
    ELSE [ok |-> TRUE, error |-> "", secret |-> <<"interpolated", shares>>]

\* ShamirService.combineShares
combineShares(shares) ==
    IF Len(shares) = 0
    THEN [ok |-> FALSE, error |-> "No shares provided for reconstruction", secret |-> <<>>]
    ELSE IF Len(shares) < SHAMIR_MIN_THRESHOLD
    THEN [ok |-> FALSE, error |-> "At least 2 shares required", secret |-> <<>>]
    ELSE IF \E i \in DOMAIN shares : ~isValidShare(shares[i])
    THEN [ok |-> FALSE, error |-> "Invalid share format", secret |-> <<>>]
    ELSE LibCombine(shares)

\* validateSplitParams that lets an empty secret through
validateSplitParamsNoEmptyCheck(secret, threshold, totalShares) ==
    IF threshold < SHAMIR_MIN_THRESHOLD THEN "Threshold must be at least 2"
    ELSE IF totalShares > MAX_SHARES THEN "Cannot create more than 255 shares"
    ELSE IF threshold > totalShares THEN "Threshold cannot exceed total shares"
    ELSE "none"

\* ShamirService.validateSplitParams: the message it throws, or "none"
validateSplitParams(secret, threshold, totalShares) ==
    IF Len(secret) = 0 THEN "Secret cannot be empty"
    ELSE IF threshold < SHAMIR_MIN_THRESHOLD THEN "Threshold must be at least 2"
    ELSE IF totalShares > MAX_SHARES THEN "Cannot create more than 255 shares"
    ELSE IF threshold > totalShares THEN "Threshold cannot exceed total shares"
    ELSE "none"

\* split of shamir-secret-sharing: as many shares as asked for, each one byte
\* longer than the secret; what the bytes are is the library's business
LibSplit(secret, totalShares, threshold) ==
    [i \in 1 .. totalShares |-> [length |-> Len(secret) + 1]]

\* ShamirService.splitSecret
splitSecret(secret, threshold, totalShares) ==
    IF validateSplitParams(secret, threshold, totalShares) # "none"
    THEN [ok |-> FALSE, error |-> validateSplitParams(secret, threshold, totalShares),
          shares |-> <<>>, threshold |-> 0, totalShares |-> 0]
    ELSE [ok |-> TRUE, error |-> "", shares |-> LibSplit(secret, totalShares, threshold),
          threshold |-> threshold, totalShares |-> totalShares]

NoShamirCall == [op |-> "none"]

Includes(seq, x) == \E i \in DOMAIN seq : seq[i] = x

IdleCall ==
    [pc |-> "idle", op |-> "", sessionId |-> 0, guardianId |-> "", encryptedShare |-> "",
     session |-> NoSession, sessions |-> <<>>, shares |-> <<>>,
     success |-> FALSE, error |-> "", secret |-> <<>>]

\* the call of caller p has returned or thrown
Return(p, op, sessionId, session, success, error, secret) ==
    calls' = [calls EXCEPT ![p] =
                [IdleCall EXCEPT !.pc = "done", !.op = op, !.sessionId = sessionId,
                                 !.success = success, !.error = error, !.secret = secret]]

\* a caller that is not inside a call starts one
Starts(p) ==
    /\ p \in callers
    /\ calls[p].pc \in {"idle", "done"}
    /\ callBudget > 0
    /\ callBudget' = callBudget - 1
    /\ UNCHANGED <<callers, shamir>>
    /\ UNCHANGED regVars

\* a call in flight goes on
Continues(p, pc) ==
    /\ calls[p].pc = pc
    /\ UNCHANGED <<callers, callBudget, shamir>>
    /\ UNCHANGED regVars

(***************************************************************************)
(* initiateRecovery                                                        *)
(***************************************************************************)
\* up to the await of getActiveSession, which has read the sessions
RO_initiateRecovery(p, userAddress, newOwnerAddress) ==
    /\ Starts(p)
    /\ IF userAddress = "" \/ newOwnerAddress = ""
       THEN Return(p, "initiateRecovery", 0, NoSession, FALSE,
                   "Both user and new owner addresses are required", <<>>)
       ELSE IF ToLowerCase(userAddress) = ToLowerCase(newOwnerAddress)
       THEN Return(p, "initiateRecovery", 0, NoSession, FALSE,
                   "New owner cannot be the same as current owner", <<>>)
       ELSE IF ~GM_isRecoveryConfigured(userAddress)
       THEN Return(p, "initiateRecovery", 0, NoSession, FALSE,
                   "Recovery not configured - need at least threshold guardians", <<>>)
       ELSE calls' = [calls EXCEPT ![p] =
                        [IdleCall EXCEPT
                            !.pc = "initiate_check", !.op = "initiateRecovery",
                            !.sessions = sessionsStore,
                            !.session = [NoSession EXCEPT
                                            !.userAddress = ToLowerCase(userAddress),
                                            !.newOwnerAddress = ToLowerCase(newOwnerAddress),
                                            !.threshold = GM_getRecoveryConfigThreshold(userAddress)]]]
    /\ UNCHANGED <<sessionsStore, sharesStore, now, uuidCount, gmThreshold>>

\* the check for an active session, the new session, and saveSession up to its await
RO_initiateRecovery_check(p) ==
    /\ Continues(p, "initiate_check")
    /\ IF FindActiveSession(calls[p].sessions, calls[p].session.userAddress) # NoSession
       THEN /\ Return(p, "initiateRecovery", 0, NoSession, FALSE,
                      "Recovery already in progress. Cancel existing session first.", <<>>)
            /\ UNCHANGED uuidCount
       ELSE /\ uuidCount < MaxSessions
            /\ uuidCount' = uuidCount + 1
            /\ calls' = [calls EXCEPT ![p] =
                           [@ EXCEPT !.pc = "initiate_save",
                                     !.sessionId = uuidCount + 1,
                                     !.sessions = sessionsStore,
                                     !.session = [@ EXCEPT !.id = uuidCount + 1,
                                                           !.status = "pending",
                                                           !.collectedShares = <<>>,
                                                           !.initiatedAt = now,
                                                           !.executeAfter = now + RECOVERY_DELAY_MS]]]
    /\ UNCHANGED <<sessionsStore, sharesStore, now, gmThreshold>>

\* saveSession after its await
RO_initiateRecovery_save(p) ==
    /\ Continues(p, "initiate_save")
    /\ sessionsStore' = PutSession(calls[p].sessions, calls[p].session)
    /\ Return(p, "initiateRecovery", calls[p].sessionId, calls[p].session, TRUE, "", <<>>)
    /\ UNCHANGED <<sharesStore, now, uuidCount, gmThreshold>>

(***************************************************************************)
(* submitShare                                                             *)
(***************************************************************************)
\* up to the await of getSession, which has read the sessions
RO_submitShare(p, sessionId, guardianAddress, encryptedShare) ==
    /\ Starts(p)
    /\ calls' = [calls EXCEPT ![p] =
                    [IdleCall EXCEPT
                        !.pc = "submit_check", !.op = "submitShare", !.sessionId = sessionId,
                        !.guardianId = guardianAddress, !.encryptedShare = encryptedShare,
                        !.session = FindSession(sessionsStore, sessionId)]]
    /\ UNCHANGED <<sessionsStore, sharesStore, now, uuidCount, gmThreshold>>

\* submitShare's checks without the check for an earlier submission
RO_submitShare_checkNoDuplicateCheck(p) ==
    /\ Continues(p, "submit_check")
    /\ LET c == calls[p]
           session == c.session
           guardian == FindGuardian(GM_getGuardians(session.userAddress), c.guardianId)
       IN  IF session = NoSession
           THEN /\ Return(p, "submitShare", c.sessionId, session, FALSE,
                          "Recovery session not found", <<>>)
                /\ UNCHANGED sharesStore
           ELSE IF session.status = "executed" \/ session.status = "cancelled"
           THEN /\ Return(p, "submitShare", c.sessionId, session, FALSE,
                          "Recovery session is terminal", <<>>)
                /\ UNCHANGED sharesStore
           ELSE IF ~guardian.found
           THEN /\ Return(p, "submitShare", c.sessionId, session, FALSE,
                          "Not an authorized guardian", <<>>)
                /\ UNCHANGED sharesStore
           ELSE /\ sharesStore' = [sharesStore EXCEPT ![c.sessionId] =
                                      PutShare(@, guardian.id, c.encryptedShare)]
                /\ calls' = [calls EXCEPT ![p] =
                               [@ EXCEPT !.pc = "submit_status",
                                         !.guardianId = guardian.id,
                                         !.session = [@ EXCEPT !.collectedShares =
                                                         Append(@, guardian.id)]]]
    /\ UNCHANGED <<sessionsStore, now, uuidCount, gmThreshold>>

\* submitShare that stores the share before it looks for an earlier submission
RO_submitShare_checkStoresFirst(p) ==
    /\ Continues(p, "submit_check")
    /\ LET c == calls[p]
           session == c.session
           guardian == FindGuardian(GM_getGuardians(session.userAddress), c.guardianId)
       IN  IF session = NoSession
           THEN /\ Return(p, "submitShare", c.sessionId, session, FALSE,
                          "Recovery session not found", <<>>)
                /\ UNCHANGED sharesStore
           ELSE IF session.status = "executed" \/ session.status = "cancelled"
           THEN /\ Return(p, "submitShare", c.sessionId, session, FALSE,
                          "Recovery session is terminal", <<>>)
                /\ UNCHANGED sharesStore
           ELSE IF ~guardian.found
           THEN /\ Return(p, "submitShare", c.sessionId, session, FALSE,
                          "Not an authorized guardian", <<>>)
                /\ UNCHANGED sharesStore
           ELSE IF Includes(session.collectedShares, guardian.id)
           THEN /\ Return(p, "submitShare", c.sessionId, session, FALSE,
                          "Share already submitted", <<>>)
                /\ sharesStore' = [sharesStore EXCEPT ![c.sessionId] =
                                      PutShare(@, guardian.id, c.encryptedShare)]
           ELSE /\ sharesStore' = [sharesStore EXCEPT ![c.sessionId] =
                                      PutShare(@, guardian.id, c.encryptedShare)]
                /\ calls' = [calls EXCEPT ![p] =
                               [@ EXCEPT !.pc = "submit_status",
                                         !.guardianId = guardian.id,
                                         !.session = [@ EXCEPT !.collectedShares =
                                                         Append(@, guardian.id)]]]
    /\ UNCHANGED <<sessionsStore, now, uuidCount, gmThreshold>>

\* the checks, the push and storeSubmittedShare
RO_submitShare_check(p) ==
    /\ Continues(p, "submit_check")
    /\ LET c == calls[p]
           session == c.session
           guardian == FindGuardian(GM_getGuardians(session.userAddress), c.guardianId)
       IN  IF session = NoSession
           THEN /\ Return(p, "submitShare", c.sessionId, session, FALSE,
                          "Recovery session not found", <<>>)
                /\ UNCHANGED sharesStore
           ELSE IF session.status = "executed" \/ session.status = "cancelled"
           THEN /\ Return(p, "submitShare", c.sessionId, session, FALSE,
                          "Recovery session is terminal", <<>>)
                /\ UNCHANGED sharesStore
           ELSE IF ~guardian.found
           THEN /\ Return(p, "submitShare", c.sessionId, session, FALSE,
                          "Not an authorized guardian", <<>>)
                /\ UNCHANGED sharesStore
           ELSE IF Includes(session.collectedShares, guardian.id)
           THEN /\ Return(p, "submitShare", c.sessionId, session, FALSE,
                          "Share already submitted", <<>>)
                /\ UNCHANGED sharesStore
           ELSE /\ sharesStore' = [sharesStore EXCEPT ![c.sessionId] =
                                      PutShare(@, guardian.id, c.encryptedShare)]
                /\ calls' = [calls EXCEPT ![p] =
                               [@ EXCEPT !.pc = "submit_status",
                                         !.guardianId = guardian.id,
                                         !.session = [@ EXCEPT !.collectedShares =
                                                         Append(@, guardian.id)]]]
    /\ UNCHANGED <<sessionsStore, now, uuidCount, gmThreshold>>

\* submitShare that compares the summed weight of the guardians collected
\* with the threshold
RO_submitShare_statusByWeight(p) ==
    /\ Continues(p, "submit_status")
    /\ LET collected == calls[p].session.collectedShares
           weight == SumGuardianWeights(
                        SelectSeq(GMGuardianList, LAMBDA g : Includes(collected, g.id)))
       IN  calls' = [calls EXCEPT ![p] =
                       [@ EXCEPT !.pc = "submit_save",
                                 !.sessions = sessionsStore,
                                 !.session = [@ EXCEPT !.status =
                                                 IF weight >= calls[p].session.threshold
                                                 THEN "ready" ELSE "collecting"]]]
    /\ UNCHANGED <<sessionsStore, sharesStore, now, uuidCount, gmThreshold>>

\* the new status, and saveSession up to its await
RO_submitShare_status(p) ==
    /\ Continues(p, "submit_status")
    /\ calls' = [calls EXCEPT ![p] =
                    [@ EXCEPT !.pc = "submit_save",
                              !.sessions = sessionsStore,
                              !.session = [@ EXCEPT !.status =
                                              IF Len(calls[p].session.collectedShares)
                                                    >= calls[p].session.threshold
                                              THEN "ready" ELSE "collecting"]]]
    /\ UNCHANGED <<sessionsStore, sharesStore, now, uuidCount, gmThreshold>>

\* saveSession after its await
RO_submitShare_save(p) ==
    /\ Continues(p, "submit_save")
    /\ sessionsStore' = PutSession(calls[p].sessions, calls[p].session)
    /\ Return(p, "submitShare", calls[p].sessionId, calls[p].session, TRUE, "", <<>>)
    /\ UNCHANGED <<sharesStore, now, uuidCount, gmThreshold>>

(***************************************************************************)
(* checkReadiness                                                          *)
(***************************************************************************)
RO_checkReadiness(p, sessionId) ==
    /\ Starts(p)
    /\ calls' = [calls EXCEPT ![p] =
                    [IdleCall EXCEPT !.pc = "ready_check", !.op = "checkReadiness",
                                     !.sessionId = sessionId,
                                     !.session = FindSession(sessionsStore, sessionId)]]
    /\ UNCHANGED <<sessionsStore, sharesStore, now, uuidCount, gmThreshold>>

\* checkReadiness that does not look at the time-lock
RO_checkReadiness_checkNoTimeLock(p) ==
    /\ Continues(p, "ready_check")
    /\ LET c == calls[p]
           session == c.session
           thresholdMet == Len(session.collectedShares) >= session.threshold
       IN  IF session = NoSession
           THEN Return(p, "checkReadiness", c.sessionId, session, FALSE, "", <<>>)
           ELSE IF thresholdMet /\ session.status = "ready"
           THEN calls' = [calls EXCEPT ![p] =
                            [@ EXCEPT !.pc = "ready_save",
                                      !.sessions = sessionsStore,
                                      !.session = [@ EXCEPT !.status = "executable"]]]
           ELSE Return(p, "checkReadiness", c.sessionId, session,
                       session.status = "executable", "", <<>>)
    /\ UNCHANGED <<sessionsStore, sharesStore, now, uuidCount, gmThreshold>>

\* the promotion, and saveSession up to its await
RO_checkReadiness_check(p) ==
    /\ Continues(p, "ready_check")
    /\ LET c == calls[p]
           session == c.session
           thresholdMet == Len(session.collectedShares) >= session.threshold
           timeLockExpired == now >= session.executeAfter
       IN  IF session = NoSession
           THEN Return(p, "checkReadiness", c.sessionId, session, FALSE, "", <<>>)
           ELSE IF thresholdMet /\ timeLockExpired /\ session.status = "ready"
           THEN calls' = [calls EXCEPT ![p] =
                            [@ EXCEPT !.pc = "ready_save",
                                      !.sessions = sessionsStore,
                                      !.session = [@ EXCEPT !.status = "executable"]]]
           ELSE Return(p, "checkReadiness", c.sessionId, session,
                       session.status = "executable", "", <<>>)
    /\ UNCHANGED <<sessionsStore, sharesStore, now, uuidCount, gmThreshold>>

RO_checkReadiness_save(p) ==
    /\ Continues(p, "ready_save")
    /\ sessionsStore' = PutSession(calls[p].sessions, calls[p].session)
    /\ Return(p, "checkReadiness", calls[p].sessionId, calls[p].session, TRUE, "", <<>>)
    /\ UNCHANGED <<sharesStore, now, uuidCount, gmThreshold>>

(***************************************************************************)
(* executeRecovery                                                         *)
(***************************************************************************)
RO_executeRecovery(p, sessionId) ==
    /\ Starts(p)
    /\ calls' = [calls EXCEPT ![p] =
                    [IdleCall EXCEPT !.pc = "execute_check", !.op = "executeRecovery",
                                     !.sessionId = sessionId,
                                     !.session = FindSession(sessionsStore, sessionId)]]
    /\ UNCHANGED <<sessionsStore, sharesStore, now, uuidCount, gmThreshold>>

\* executeRecovery's checks without the time-lock check
RO_executeRecovery_checkNoTimeLock(p) ==
    /\ Continues(p, "execute_check")
    /\ LET c == calls[p]
           session == c.session
       IN  IF session = NoSession
           THEN Return(p, "executeRecovery", c.sessionId, session, FALSE,
                       "Recovery session not found", <<>>)
           ELSE IF Len(session.collectedShares) < session.threshold
           THEN Return(p, "executeRecovery", c.sessionId, session, FALSE,
                       "Need more shares", <<>>)
           ELSE calls' = [calls EXCEPT ![p] =
                            [@ EXCEPT !.pc = "execute_combine",
                                      !.shares = getSubmittedShares(c.sessionId)]]
    /\ UNCHANGED <<sessionsStore, sharesStore, now, uuidCount, gmThreshold>>

\* the threshold and time-lock checks, and getSubmittedShares
RO_executeRecovery_check(p) ==
    /\ Continues(p, "execute_check")
    /\ LET c == calls[p]
           session == c.session
       IN  IF session = NoSession
           THEN Return(p, "executeRecovery", c.sessionId, session, FALSE,
                       "Recovery session not found", <<>>)
           ELSE IF Len(session.collectedShares) < session.threshold
           THEN Return(p, "executeRecovery", c.sessionId, session, FALSE,
                       "Need more shares", <<>>)
           ELSE IF now < session.executeAfter
           THEN Return(p, "executeRecovery", c.sessionId, session, FALSE,
                       "Time-lock not expired", <<>>)
           ELSE calls' = [calls EXCEPT ![p] =
                            [@ EXCEPT !.pc = "execute_combine",
                                      !.shares = getSubmittedShares(c.sessionId)]]
    /\ UNCHANGED <<sessionsStore, sharesStore, now, uuidCount, gmThreshold>>

\* combineShares, the executed mark, and saveSession up to its await
RO_executeRecovery_combine(p) ==
    /\ Continues(p, "execute_combine")
    /\ LET c == calls[p]
           combined == combineShares(c.shares)
       IN  IF ~combined.ok
           THEN Return(p, "executeRecovery", c.sessionId, c.session, FALSE, combined.error, <<>>)
           ELSE calls' = [calls EXCEPT ![p] =
                            [@ EXCEPT !.pc = "execute_save",
                                      !.sessions = sessionsStore,
                                      !.secret = combined.secret,
                                      !.shares = <<>>,
                                      !.session = [@ EXCEPT !.status = "executed",
                                                            !.executedAt = now]]]
    /\ UNCHANGED <<sessionsStore, sharesStore, now, uuidCount, gmThreshold>>

RO_executeRecovery_save(p) ==
    /\ Continues(p, "execute_save")
    /\ sessionsStore' = PutSession(calls[p].sessions, calls[p].session)
    /\ Return(p, "executeRecovery", calls[p].sessionId, calls[p].session, TRUE, "",
              calls[p].secret)
    /\ UNCHANGED <<sharesStore, now, uuidCount, gmThreshold>>

(***************************************************************************)
(* cancelRecovery                                                          *)
(***************************************************************************)
RO_cancelRecovery(p, sessionId, cancellerAddress) ==
    /\ Starts(p)
    /\ calls' = [calls EXCEPT ![p] =
                    [IdleCall EXCEPT !.pc = "cancel_check", !.op = "cancelRecovery",
                                     !.sessionId = sessionId,
                                     !.guardianId = cancellerAddress,
                                     !.session = FindSession(sessionsStore, sessionId)]]
    /\ UNCHANGED <<sessionsStore, sharesStore, now, uuidCount, gmThreshold>>

\* the checks, the cancelled mark, and saveSession up to its await
RO_cancelRecovery_check(p) ==
    /\ Continues(p, "cancel_check")
    /\ LET c == calls[p]
           session == c.session
           isOwner == ToLowerCase(c.guardianId) = ToLowerCase(session.userAddress)
           isGuardianOfOwner == FindGuardian(GM_getGuardians(session.userAddress), c.guardianId).found
       IN  IF session = NoSession
           THEN Return(p, "cancelRecovery", c.sessionId, session, FALSE,
                       "Recovery session not found", <<>>)
           ELSE IF session.status = "executed"
           THEN Return(p, "cancelRecovery", c.sessionId, session, FALSE,
                       "Cannot cancel executed recovery", <<>>)
           ELSE IF session.status = "cancelled"
           THEN Return(p, "cancelRecovery", c.sessionId, session, FALSE,
                       "Recovery already cancelled", <<>>)
           ELSE IF ~isOwner /\ ~isGuardianOfOwner
           THEN Return(p, "cancelRecovery", c.sessionId, session, FALSE,
                       "Not authorized to cancel recovery", <<>>)
           ELSE calls' = [calls EXCEPT ![p] =
                            [@ EXCEPT !.pc = "cancel_save",
                                      !.guardianId = "",
                                      !.sessions = sessionsStore,
                                      !.session = [@ EXCEPT !.status = "cancelled",
                                                            !.cancelledAt = now]]]
    /\ UNCHANGED <<sessionsStore, sharesStore, now, uuidCount, gmThreshold>>

RO_cancelRecovery_save(p) ==
    /\ Continues(p, "cancel_save")
    /\ sessionsStore' = PutSession(calls[p].sessions, calls[p].session)
    /\ Return(p, "cancelRecovery", calls[p].sessionId, calls[p].session, TRUE, "", <<>>)
    /\ UNCHANGED <<sharesStore, now, uuidCount, gmThreshold>>

\* Date.now() moves forward
ClockAdvances(t) ==
    /\ t > now
    /\ now' = t
    /\ UNCHANGED <<sessionsStore, sharesStore, uuidCount, gmThreshold, calls, callers, callBudget,
                   shamir>>
    /\ UNCHANGED regVars

\* nothing stored yet
OrchStart ==
    /\ sessionsStore = <<>>
    /\ sharesStore = [id \in 1 .. (MaxSessions + 1) |-> <<>>]
    /\ now = 0
    /\ uuidCount = 0
    /\ gmThreshold \in GMThresholdInputs
    /\ calls = [p \in Procs |-> IdleCall]
    /\ shamir = NoShamirCall

\* one caller: its calls follow one another
OrchInit ==
    /\ OrchStart
    /\ callers = {1}
    /\ callBudget = MaxCalls

\* localStorage as an earlier page load has left it: initiateRecovery for
\* owner 0xA1 and submitShare of guardian 0xC3 have returned
OrchStored ==
    /\ gmThreshold \in GMThresholdInputs
    /\ sessionsStore =
          << [id |-> 1, userAddress |-> "0xa1", newOwnerAddress |-> "0xb2",
              status |-> "collecting", threshold |-> gmThreshold,
              collectedShares |-> <<"g1">>, initiatedAt |-> 0,
              executeAfter |-> RECOVERY_DELAY_MS, executedAt |-> Absent,
              cancelledAt |-> Absent] >>
    /\ sharesStore = [id \in 1 .. (MaxSessions + 1) |->
                         IF id = 1 THEN << <<"g1", "AQc=">> >> ELSE <<>>]
    /\ now = 0
    /\ uuidCount = 1
    /\ calls = [p \in Procs |-> IdleCall]
    /\ shamir = NoShamirCall

\* two callers: their calls interleave at the awaits
OrchConcInit ==
    /\ (OrchStart \/ OrchStored)
    /\ callers = Procs
    /\ callBudget = MaxConcCalls

OrchNext ==
    \/ \E p \in Procs, u \in OwnerInputs, n \in NewOwnerInputs : RO_initiateRecovery(p, u, n)
    \/ \E p \in Procs : RO_initiateRecovery_check(p)
    \/ \E p \in Procs : RO_initiateRecovery_save(p)
    \/ \E p \in Procs, id \in SessionIdInputs, g \in GuardianAddressInputs, e \in EncodedShareInputs :
          RO_submitShare(p, id, g, e)
    \/ \E p \in Procs : RO_submitShare_check(p)
    \/ \E p \in Procs : RO_submitShare_status(p)
    \/ \E p \in Procs : RO_submitShare_save(p)
    \/ \E p \in Procs, id \in SessionIdInputs : RO_checkReadiness(p, id)
    \/ \E p \in Procs : RO_checkReadiness_check(p)
    \/ \E p \in Procs : RO_checkReadiness_save(p)
    \/ \E p \in Procs, id \in SessionIdInputs : RO_executeRecovery(p, id)
    \/ \E p \in Procs : RO_executeRecovery_check(p)
    \/ \E p \in Procs : RO_executeRecovery_combine(p)
    \/ \E p \in Procs : RO_executeRecovery_save(p)
    \/ \E p \in Procs, id \in SessionIdInputs, a \in CancellerInputs : RO_cancelRecovery(p, id, a)
    \/ \E p \in Procs : RO_cancelRecovery_check(p)
    \/ \E p \in Procs : RO_cancelRecovery_save(p)
    \/ \E t \in OrchTimePoints : ClockAdvances(t)


(***************************************************************************)
(* The registry after deployment, and its transactions.                    *)
(***************************************************************************)
RegInit ==
    /\ guardians = [a \in AddrOrZero |-> <<>>]
    /\ thresholds = [a \in AddrOrZero |-> 0]
    /\ recoveryRequests = <<>>
    /\ recoveryCount = 0
    /\ activeRecovery = [a \in AddrOrZero |-> 0]
    /\ blockTimestamp = 0
    /\ txCount = 0

Init == RegInit /\ OrchInit

Next ==
    \/ \E sender \in OwnerAccts, gw \in GuardianInputs : addGuardian(sender, gw[1], gw[2])
    \/ \E sender \in OwnerAccts, guardian \in Addr : removeGuardian(sender, guardian)
    \/ \E sender \in OwnerAccts, k \in ThresholdInputs : setThreshold(sender, k)
    \/ \E sender \in Addr, owner \in OwnerAccts, newOwner \in OwnerAccts :
          initiateRecovery(sender, owner, newOwner)
    \/ \E sender \in Addr, requestId \in RequestIds : approveRecovery(sender, requestId)
    \/ \E sender \in Addr, requestId \in RequestIds : executeRecovery(sender, requestId)
    \/ \E sender \in Addr, requestId \in RequestIds : cancelRecovery(sender, requestId)
    \/ \E t \in TimePoints : MineBlock(t)

Spec == Init /\ [][Next]_vars

SpecOrch == Init /\ [][OrchNext]_vars

ConcInit == RegInit /\ OrchConcInit

SpecOrchConc == ConcInit /\ [][OrchNext]_vars

\* the list of an account that has called addGuardian MAX_GUARDIANS times,
\* for ten different accounts (3 and 12 .. 20) with weight 1
FullGuardianList ==
    [i \in 1 .. MAX_GUARDIANS |->
        [addr |-> IF i = 1 THEN 3 ELSE 10 + i, weight |-> 1, isActive |-> TRUE]]

\* the registry when account 2 has filled its guardian list
RegFullInit ==
    /\ guardians = [a \in AddrOrZero |-> IF a = 2 THEN FullGuardianList ELSE <<>>]
    /\ thresholds = [a \in AddrOrZero |-> 0]
    /\ recoveryRequests = <<>>
    /\ recoveryCount = 0
    /\ activeRecovery = [a \in AddrOrZero |-> 0]
    /\ blockTimestamp = 0
    /\ txCount = 0

FullInit == RegFullInit /\ OrchInit

SpecFull == FullInit /\ [][Next]_vars


(***************************************************************************)
(* ShamirService called directly: one splitSecret or combineShares call    *)
(* after another, with arguments drawn from the sets below.                *)
(***************************************************************************)
MaxShareCount == 3      \* shares handed to one combineShares call

SecretInputs == {<<>>, <<0>>, <<7>>, <<7, 9>>}
SplitThresholdInputs == 0 .. 4
SplitTotalInputs == {0, 1, 2, 3, 4, MAX_SHARES - 1, MAX_SHARES, MAX_SHARES + 1}
ShareInputs == {<<>>, <<1>>, <<0, 7>>, <<1, 7>>, <<2, 9>>, <<MAX_SHARES, 3>>}

RECURSIVE SeqsUpTo(_, _)
SeqsUpTo(S, n) ==
    IF n = 0 THEN {<<>>}
    ELSE LET shorter == SeqsUpTo(S, n - 1)
         IN  shorter \cup {Append(q, x) : q \in shorter, x \in S}

SS_splitSecret(secret, threshold, totalShares) ==
    /\ shamir' = [op |-> "splitSecret", secret |-> secret, threshold |-> threshold,
                  totalShares |-> totalShares,
                  result |-> splitSecret(secret, threshold, totalShares)]
    /\ UNCHANGED regVars
    /\ UNCHANGED <<sessionsStore, sharesStore, now, uuidCount, gmThreshold, calls, callers,
                   callBudget>>

SS_combineShares(shares) ==
    /\ shamir' = [op |-> "combineShares", shares |-> shares, result |-> combineShares(shares)]
    /\ UNCHANGED regVars
    /\ UNCHANGED <<sessionsStore, sharesStore, now, uuidCount, gmThreshold, calls, callers,
                   callBudget>>

ShamirNext ==
    \/ \E secret \in SecretInputs, threshold \in SplitThresholdInputs,
          totalShares \in SplitTotalInputs : SS_splitSecret(secret, threshold, totalShares)
    \/ \E shares \in SeqsUpTo(ShareInputs, MaxShareCount) : SS_combineShares(shares)

SpecShamir == Init /\ [][ShamirNext]_vars

(***************************************************************************)
(* The orchestrator with a caller that keeps polling.  Caller 1 initiates  *)
(* the recovery of 0xA1; callers 1 and 2 submit shares to session 1;       *)
(* caller 2 calls checkReadiness(1) again and again and calls              *)
(* executeRecovery(1) once checkReadiness has returned true; nobody        *)
(* cancels.  A call that is in flight is resumed by the event loop, so     *)
(* every stretch after an await is weakly fair, and so is the next poll.   *)
(***************************************************************************)
MaxLiveCalls == 4       \* calls other than polls started in such a run

Poller == 2

\* checkReadiness as the poller starts it, as often as it likes
RO_checkReadiness_poll(p, sessionId) ==
    /\ p \in callers
    /\ calls[p].pc \in {"idle", "done"}
    /\ calls' = [calls EXCEPT ![p] =
                    [IdleCall EXCEPT !.pc = "ready_check", !.op = "checkReadiness",
                                     !.sessionId = sessionId,
                                     !.session = FindSession(sessionsStore, sessionId)]]
    /\ UNCHANGED <<sessionsStore, sharesStore, now, uuidCount, gmThreshold, callers, callBudget,
                   shamir>>
    /\ UNCHANGED regVars

\* checkReadiness has just returned true to caller p
ReceivedTrue(p) ==
    calls[p].pc = "done" /\ calls[p].op = "checkReadiness" /\ calls[p].success

\* executeRecovery called on the strength of that answer
RO_executeRecovery_whenReady(p, sessionId) ==
    /\ ReceivedTrue(p)
    /\ RO_executeRecovery(p, sessionId)

LiveInit ==
    /\ RegInit
    /\ OrchStart
    /\ callers = Procs
    /\ callBudget = MaxLiveCalls

LiveNext ==
    \/ RO_initiateRecovery(1, "0xA1", "0xB2")
    \/ \E p \in Procs : RO_initiateRecovery_check(p)
    \/ \E p \in Procs : RO_initiateRecovery_save(p)
    \/ \E p \in Procs, g \in {"0xC3", "0xd4"}, e \in {"AQc=", "Agk="} :
          RO_submitShare(p, 1, g, e)
    \/ \E p \in Procs : RO_submitShare_check(p)
    \/ \E p \in Procs : RO_submitShare_status(p)
    \/ \E p \in Procs : RO_submitShare_save(p)
    \/ RO_checkReadiness_poll(Poller, 1)
    \/ \E p \in Procs : RO_checkReadiness_check(p)
    \/ \E p \in Procs : RO_checkReadiness_save(p)
    \/ RO_executeRecovery_whenReady(Poller, 1)
    \/ \E p \in Procs : RO_executeRecovery_check(p)
    \/ \E p \in Procs : RO_executeRecovery_combine(p)
    \/ \E p \in Procs : RO_executeRecovery_save(p)
    \/ \E t \in OrchTimePoints : ClockAdvances(t)

LiveFairness ==
    /\ \A p \in Procs :
          /\ WF_vars(RO_initiateRecovery_check(p))
          /\ WF_vars(RO_initiateRecovery_save(p))
          /\ WF_vars(RO_submitShare_check(p))
          /\ WF_vars(RO_submitShare_status(p))
          /\ WF_vars(RO_submitShare_save(p))
          /\ WF_vars(RO_checkReadiness_check(p))
          /\ WF_vars(RO_checkReadiness_save(p))
          /\ WF_vars(RO_executeRecovery_check(p))
          /\ WF_vars(RO_executeRecovery_combine(p))
          /\ WF_vars(RO_executeRecovery_save(p))
    /\ WF_vars(RO_checkReadiness_poll(Poller, 1))

SpecOrchLive == LiveInit /\ [][LiveNext]_vars /\ LiveFairness

(***************************************************************************)
(* The registry and the orchestrator side by side, for an owner whose      *)
(* guardians have the weights 3, 1 and 1 and whose threshold is 3: account *)
(* 1 has called addGuardian(2, 3), addGuardian(3, 1), addGuardian(4, 1)    *)
(* and setThreshold(3); GuardianManager holds the same guardians (0xC3,    *)
(* 0xd4, 0xe5) with threshold 3 for owner 0xA1.                            *)
(***************************************************************************)
MaxWeightedCalls == 4   \* orchestrator calls started in a side-by-side run

WeightedGuardianList ==
    << [addr |-> 2, weight |-> 3, isActive |-> TRUE],
       [addr |-> 3, weight |-> 1, isActive |-> TRUE],
       [addr |-> 4, weight |-> 1, isActive |-> TRUE] >>

WeightedThreshold == 3

WeightedInit ==
    /\ guardians = [a \in AddrOrZero |-> IF a = 1 THEN WeightedGuardianList ELSE <<>>]
    /\ thresholds = [a \in AddrOrZero |-> IF a = 1 THEN WeightedThreshold ELSE 0]
    /\ recoveryRequests = <<>>
    /\ recoveryCount = 0
    /\ activeRecovery = [a \in AddrOrZero |-> 0]
    /\ blockTimestamp = 0
    /\ txCount = Len(WeightedGuardianList) + 1
    /\ sessionsStore = <<>>
    /\ sharesStore = [id \in 1 .. (MaxSessions + 1) |-> <<>>]
    /\ now = 0
    /\ uuidCount = 0
    /\ gmThreshold = WeightedThreshold
    /\ calls = [p \in Procs |-> IdleCall]
    /\ callers = {1}
    /\ callBudget = MaxWeightedCalls
    /\ shamir = NoShamirCall

WeightedNext ==
    \/ \E sender \in Addr : initiateRecovery(sender, 1, 2)
    \/ \E sender \in Addr, requestId \in RequestIds : approveRecovery(sender, requestId)
    \/ \E requestId \in RequestIds : executeRecovery(1, requestId)
    \/ \E t \in TimePoints : MineBlock(t)
    \/ \E p \in Procs : RO_initiateRecovery(p, "0xA1", "0xB2")
    \/ \E p \in Procs : RO_initiateRecovery_check(p)
    \/ \E p \in Procs : RO_initiateRecovery_save(p)
    \/ \E p \in Procs, id \in SessionIdInputs, g \in GuardianAddressInputs :
          RO_submitShare(p, id, g, "AQc=")
    \/ \E p \in Procs : RO_submitShare_check(p)
    \/ \E p \in Procs : RO_submitShare_status(p)
    \/ \E p \in Procs : RO_submitShare_save(p)

SpecWeighted == WeightedInit /\ [][WeightedNext]_vars

(***************************************************************************)
(* Properties of the registry                                              *)
(***************************************************************************)
\* a request that is neither executed nor cancelled
Pending(requestId) ==
    /\ requestId \in DOMAIN recoveryRequests
    /\ ~recoveryRequests[requestId].executed
    /\ ~recoveryRequests[requestId].cancelled

\* the accounts with an active entry in the owner's list
ActiveGuardianAddrs(owner) ==
    {guardians[owner][i].addr : i \in {k \in DOMAIN guardians[owner] : guardians[owner][k].isActive}}

\* the (address, weight) pairs of the active entries of a list
ActivePairs(list) ==
    {<<list[i].addr, list[i].weight>> : i \in {k \in DOMAIN list : list[k].isActive}}

\* the weight an account is registered with (fixed by GuardianInputs)
InputWeight(guardian) == (CHOOSE gw \in GuardianInputs : gw[1] = guardian)[2]

RECURSIVE SumInputWeights(_)
SumInputWeights(set) ==
    IF set = {} THEN 0
    ELSE LET g == CHOOSE x \in set : TRUE
         IN  InputWeight(g) + SumInputWeights(set \ {g})

\* this step sets the executed flag of requestId
Executes(requestId) ==
    /\ requestId \in DOMAIN recoveryRequests
    /\ ~recoveryRequests[requestId].executed
    /\ recoveryRequests'[requestId].executed

\* C2: executeRecovery marks a request executed only when block.timestamp >=
\* executeAfter (= initiatedAt + RECOVERY_DELAY, never changed afterwards) and
\* approvalWeight >= threshold; on a pending request it reverts with
\* TimeLockNotExpired before executeAfter even when the threshold is met, with
\* ThresholdNotMet after it when the weight is short, and goes through when
\* both hold, the instant block.timestamp = executeAfter included.
C2_ExecuteNeedsTimeLockAndThreshold ==
    /\ [](\A id \in RequestIds :
            LET r == Request(id)
            IN  /\ r.executeAfter = r.initiatedAt + RECOVERY_DELAY
                /\ Pending(id) =>
                     /\ (blockTimestamp < r.executeAfter)
                           => executeRecoveryRevert(id) = "TimeLockNotExpired"
                     /\ (blockTimestamp >= r.executeAfter /\ r.approvalWeight < r.threshold)
                           => executeRecoveryRevert(id) = "ThresholdNotMet"
                     /\ (blockTimestamp >= r.executeAfter /\ r.approvalWeight >= r.threshold)
                           => executeRecoveryRevert(id) = "none")
    /\ [][\A id \in DOMAIN recoveryRequests :
            /\ recoveryRequests'[id].executeAfter = recoveryRequests[id].executeAfter
            /\ recoveryRequests'[id].threshold = recoveryRequests[id].threshold
            /\ Executes(id) =>
                 /\ blockTimestamp >= recoveryRequests[id].executeAfter
                 /\ recoveryRequests[id].approvalWeight >= recoveryRequests[id].threshold]_vars

\* a request executed in the very second its time-lock expires
C2_Witness ==
    \E id \in RequestIds :
        /\ Request(id).executed
        /\ blockTimestamp = Request(id).executeAfter
        /\ Request(id).approvalWeight >= Request(id).threshold

\* C4: every owner has at most one request that is neither executed nor
\* cancelled, activeRecovery[owner] is that request's id and 0 when there is
\* none; while it exists initiateRecovery for that owner (to any other new
\* owner, by any caller) reverts with RecoveryAlreadyActive, and a request is
\* created only for an owner whose slot was 0.
C4_OneActiveRequestPerOwner ==
    /\ [](\A owner \in Addr :
            LET live == {id \in RequestIds : Request(id).owner = owner /\ Pending(id)}
            IN  /\ Cardinality(live) <= 1
                /\ live = {} => activeRecovery[owner] = 0
                /\ live # {} =>
                     /\ live = {activeRecovery[owner]}
                     /\ \A sender \in Addr, newOwner \in Addr \ {owner} :
                           initiateRecoveryRevert(sender, owner, newOwner) = "RecoveryAlreadyActive")
    /\ [][recoveryCount' # recoveryCount =>
            /\ recoveryCount' = recoveryCount + 1
            /\ activeRecovery[recoveryRequests'[recoveryCount'].owner] = 0
            /\ activeRecovery'[recoveryRequests'[recoveryCount'].owner] = recoveryCount']_vars

\* an owner with an active request, a configured threshold and an active
\* guardian who could otherwise initiate; an earlier request is already closed
C4_Witness ==
    \E owner \in Addr :
        /\ activeRecovery[owner] = 2
        /\ thresholds[owner] >= MIN_THRESHOLD
        /\ ActiveGuardianAddrs(owner) # {}
        /\ ~Pending(1)

\* C5: a guardian approves a request at most once: a second approveRecovery
\* by an account in hasApproved reverts with RecoveryAlreadyApproved;
\* approvalWeight never decreases and equals the sum of the weights of the
\* accounts that approved, so one approval of weight 3 meets a threshold of 3.
C5_ApprovalOncePerGuardian ==
    /\ [](\A id \in RequestIds :
            LET r == Request(id)
            IN  /\ r.approvalWeight = SumInputWeights(r.hasApproved)
                /\ Pending(id) =>
                     \A sender \in r.hasApproved :
                        approveRecoveryRevert(sender, id) = "RecoveryAlreadyApproved"
                /\ (\E g \in r.hasApproved : InputWeight(g) >= r.threshold)
                      => r.approvalWeight >= r.threshold)
    /\ [][\A id \in DOMAIN recoveryRequests :
            /\ recoveryRequests'[id].approvalWeight >= recoveryRequests[id].approvalWeight
            /\ recoveryRequests[id].hasApproved \subseteq recoveryRequests'[id].hasApproved
            /\ Cardinality(recoveryRequests'[id].hasApproved \ recoveryRequests[id].hasApproved) <= 1]_vars

\* weights 3, 1, 1 and threshold 3: the weight-3 guardian alone has approved
C5_Witness ==
    \E id \in RequestIds :
        LET r == Request(id)
        IN  /\ r.threshold = 3
            /\ r.hasApproved = {2}
            /\ r.approvalWeight = 3
            /\ ActivePairs(guardians[r.owner]) = {<<2, 3>>, <<3, 1>>, <<4, 1>>}

\* C6: executed and cancelled exclude each other and are final: once either
\* is set the request's flags and approvalWeight stay as they are, and
\* approveRecovery, executeRecovery and cancelRecovery revert, for every
\* caller, with RecoveryAlreadyCancelled on a cancelled request and with
\* RecoveryAlreadyExecuted on an executed one.
C6_TerminalRequests ==
    /\ [](\A id \in RequestIds :
            LET r == Request(id)
            IN  /\ ~(r.executed /\ r.cancelled)
                /\ r.cancelled =>
                     \A sender \in Addr :
                        /\ approveRecoveryRevert(sender, id) = "RecoveryAlreadyCancelled"
                        /\ executeRecoveryRevert(id) = "RecoveryAlreadyCancelled"
                        /\ cancelRecoveryRevert(sender, id) = "RecoveryAlreadyCancelled"
                /\ r.executed =>
                     \A sender \in Addr :
                        /\ approveRecoveryRevert(sender, id) = "RecoveryAlreadyExecuted"
                        /\ executeRecoveryRevert(id) = "RecoveryAlreadyExecuted"
                        /\ cancelRecoveryRevert(sender, id) = "RecoveryAlreadyExecuted")
    /\ [][\A id \in DOMAIN recoveryRequests :
            (recoveryRequests[id].executed \/ recoveryRequests[id].cancelled)
               => recoveryRequests'[id] = recoveryRequests[id]]_vars

\* one request cancelled and another executed
C6_Witness ==
    \E id1 \in RequestIds, id2 \in RequestIds :
        Request(id1).cancelled /\ Request(id2).executed

\* C7: initiateRecovery and approveRecovery go through only for a caller that
\* is an active guardian of the (request's) owner when it calls, cancelRecovery
\* only for the request's owner or such a guardian; for any other caller the
\* call reverts, with NotGuardian when the checks placed before the guardian
\* check pass.
C7_OnlyGuardiansAct ==
    /\ [](\A sender \in Addr :
            /\ \A owner \in Addr, newOwner \in Addr :
                  sender \notin ActiveGuardianAddrs(owner) =>
                     /\ initiateRecoveryRevert(sender, owner, newOwner) # "none"
                     /\ (owner # newOwner /\ activeRecovery[owner] = 0)
                           => initiateRecoveryRevert(sender, owner, newOwner) = "NotGuardian"
            /\ \A id \in RequestIds :
                  sender \notin ActiveGuardianAddrs(Request(id).owner) =>
                     /\ approveRecoveryRevert(sender, id) # "none"
                     /\ (Pending(id) /\ sender \notin Request(id).hasApproved)
                           => approveRecoveryRevert(sender, id) = "NotGuardian"
                     /\ sender # Request(id).owner =>
                           /\ cancelRecoveryRevert(sender, id) # "none"
                           /\ Pending(id) => cancelRecoveryRevert(sender, id) = "NotGuardian")
    /\ [][/\ \A id \in DOMAIN recoveryRequests :
                (recoveryRequests'[id].hasApproved \ recoveryRequests[id].hasApproved)
                    \subseteq ActiveGuardianAddrs(recoveryRequests[id].owner)
          /\ \A sender \in Addr, owner \in Addr, newOwner \in Addr :
                initiateRecovery(sender, owner, newOwner) => sender \in ActiveGuardianAddrs(owner)
          /\ \A sender \in Addr, id \in DOMAIN recoveryRequests :
                /\ approveRecovery(sender, id)
                      => sender \in ActiveGuardianAddrs(recoveryRequests[id].owner)
                /\ cancelRecovery(sender, id)
                      => \/ sender = recoveryRequests[id].owner
                         \/ sender \in ActiveGuardianAddrs(recoveryRequests[id].owner)]_vars

\* a pending request whose owner has removed a guardian: that account is in
\* the list, inactive, and is no longer let in
C7_Witness ==
    \E id \in RequestIds :
        /\ Pending(id)
        /\ \E i \in DOMAIN guardians[Request(id).owner] :
              /\ ~guardians[Request(id).owner][i].isActive
              /\ guardians[Request(id).owner][i].addr
                    \notin ActiveGuardianAddrs(Request(id).owner)

\* C8: the owner of a pending request can cancel it at any time, whatever the
\* clock and the approval weight; a cancelled request stays cancelled and is
\* never executed, and no request is executed before initiatedAt +
\* RECOVERY_DELAY, so the owner has that whole window.
C8_OwnerCanAlwaysCancel ==
    /\ [](\A id \in RequestIds :
            Pending(id) => cancelRecoveryRevert(Request(id).owner, id) = "none")
    /\ [][\A id \in DOMAIN recoveryRequests :
            /\ cancelRecovery(recoveryRequests[id].owner, id)
                  => recoveryRequests'[id].cancelled
            /\ recoveryRequests[id].cancelled
                  => recoveryRequests'[id].cancelled /\ ~recoveryRequests'[id].executed
            /\ Executes(id)
                  => blockTimestamp >= recoveryRequests[id].initiatedAt + RECOVERY_DELAY]_vars

\* a request cancelled although its threshold is met and its time-lock is over
C8_Witness ==
    \E id \in RequestIds :
        /\ Request(id).cancelled
        /\ Request(id).approvalWeight >= Request(id).threshold
        /\ blockTimestamp >= Request(id).executeAfter

C10_OldOwnerConfigurationDropped ==
    [][\A id \in DOMAIN recoveryRequests :
          Executes(id) =>
             /\ ActivePairs(guardians'[recoveryRequests[id].owner]) = {}
             /\ thresholds'[recoveryRequests[id].owner] = 0]_vars

\* C11: no guardian list holds two active entries with the same address.
C11_NoDuplicateActiveGuardians ==
    \A owner \in Addr :
        \A i \in DOMAIN guardians[owner], j \in DOMAIN guardians[owner] :
            (i # j /\ guardians[owner][i].isActive /\ guardians[owner][j].isActive)
               => guardians[owner][i].addr # guardians[owner][j].addr

\* C12: no account is an active guardian in its own list; addGuardian of the
\* caller itself reverts with InvalidAddress.
C12_NoSelfGuardian ==
    \A a \in Addr :
        /\ a \notin ActiveGuardianAddrs(a)
        /\ addGuardianRevert(a, a, 1) = "InvalidAddress"

\* C13: a threshold that has been set satisfies
\* MIN_THRESHOLD <= K <= total weight of the owner's active guardians.
C13_ThresholdWithinWeight ==
    \A owner \in Addr :
        thresholds[owner] # 0 =>
           /\ MIN_THRESHOLD <= thresholds[owner]
           /\ thresholds[owner] <= getTotalGuardianWeight(owner)

\* C14: every account has at most MAX_GUARDIANS guardians.
C14_AtMostMaxGuardians ==
    \A a \in Addr : Len(getGuardians(a)) <= MAX_GUARDIANS

\* the accounts that occur as guardians
GuardianAddrs == Addr \cup {FullGuardianList[i].addr : i \in DOMAIN FullGuardianList}

\* C25 as stated: addGuardian of an active guardian of the caller reverts
\* with GuardianAlreadyExists whatever the size of the caller's list.
C25_DuplicateAddAlwaysAlreadyExists ==
    \A sender \in Addr :
        \A guardian \in ActiveGuardianAddrs(sender) \ {sender} :
            addGuardianRevert(sender, guardian, 1) = "GuardianAlreadyExists"

\* C25 as amended: addGuardian of an active guardian of the caller always
\* reverts; the error is GuardianAlreadyExists when the guardian is not the
\* caller, the list holds fewer than MAX_GUARDIANS entries and the weight is
\* not 0, and MaxGuardiansReached when the guardian is not the caller and the
\* list holds MAX_GUARDIANS entries or more.  removeGuardian of an account
\* that is not an active guardian of the caller reverts with GuardianNotFound.
\* Neither call changes the list.
C25_DuplicateAddAndMissingRemoveRejected ==
    /\ [](\A sender \in Addr :
            /\ \A guardian \in ActiveGuardianAddrs(sender), weight \in 0 .. 3 :
                  /\ addGuardianRevert(sender, guardian, weight) # "none"
                  /\ (/\ guardian # sender
                      /\ Len(guardians[sender]) < MAX_GUARDIANS
                      /\ weight > 0)
                        => addGuardianRevert(sender, guardian, weight) = "GuardianAlreadyExists"
                  /\ (guardian # sender /\ Len(guardians[sender]) >= MAX_GUARDIANS)
                        => addGuardianRevert(sender, guardian, weight) = "MaxGuardiansReached"
            /\ \A guardian \in (GuardianAddrs \cup {ZeroAddress}) \ ActiveGuardianAddrs(sender) :
                  removeGuardianRevert(sender, guardian) = "GuardianNotFound")
    /\ [][\A sender \in Addr :
            guardians'[sender] # guardians[sender] =>
               \A guardian \in GuardianAddrs :
                  /\ (\E weight \in 1 .. 3 : addGuardian(sender, guardian, weight))
                        => guardian \notin ActiveGuardianAddrs(sender)
                  /\ removeGuardian(sender, guardian)
                        => guardian \in ActiveGuardianAddrs(sender)]_vars

\* an account below the cap with an active guardian and a removed one
C25_Witness ==
    \E sender \in Addr :
        /\ Len(guardians[sender]) < MAX_GUARDIANS
        /\ ActiveGuardianAddrs(sender) # {}
        /\ \E i \in DOMAIN guardians[sender] :
              /\ ~guardians[sender][i].isActive
              /\ guardians[sender][i].addr \notin ActiveGuardianAddrs(sender)

\* C30: once a list holds MAX_GUARDIANS entries, active or not, every
\* addGuardian of its owner reverts, with MaxGuardiansReached when the
\* guardian is another account than the zero address and the caller; no call
\* shortens a list, and removeGuardian leaves its length as it is.
C30_RemovedGuardiansCountTowardCap ==
    /\ [](\A sender \in Addr :
            Len(guardians[sender]) >= MAX_GUARDIANS =>
               \A guardian \in GuardianAddrs \cup {ZeroAddress}, weight \in 0 .. 3 :
                  /\ addGuardianRevert(sender, guardian, weight) # "none"
                  /\ guardian \notin {ZeroAddress, sender}
                        => addGuardianRevert(sender, guardian, weight) = "MaxGuardiansReached")
    /\ [][\A a \in Addr :
            /\ Len(guardians'[a]) >= Len(guardians[a])
            /\ (/\ guardians'[a] # guardians[a]
                /\ \E guardian \in GuardianAddrs : removeGuardian(a, guardian))
                  => Len(guardians'[a]) = Len(guardians[a])]_vars

\* a list of exactly MAX_GUARDIANS entries, one of them removed
C30_Witness ==
    \E a \in Addr :
        /\ Len(guardians[a]) = MAX_GUARDIANS
        /\ Len(getGuardians(a)) = MAX_GUARDIANS - 1

RECURSIVE WeightOfEntries(_, _)
WeightOfEntries(list, indices) ==
    IF indices = {} THEN 0
    ELSE LET i == CHOOSE k \in indices : TRUE
         IN  list[i].weight + WeightOfEntries(list, indices \ {i})

\* the summed weight of the owner's entries that are active
ActiveWeight(owner) ==
    WeightOfEntries(guardians[owner],
                    {k \in DOMAIN guardians[owner] : guardians[owner][k].isActive})

\* the summed weight of all the owner's entries
ListedWeight(owner) == WeightOfEntries(guardians[owner], DOMAIN guardians[owner])

ThresholdProbes == 0 .. 6

\* C26: setThreshold(K) reverts with InvalidThreshold exactly when K <
\* MIN_THRESHOLD or K exceeds the summed weight of the caller's active
\* guardians, removed ones not counted; otherwise it stores K as the caller's
\* threshold, and a threshold changes in no other way than by such a call or
\* by an executeRecovery towards the account.
C26_SetThresholdChecksActiveWeight ==
    /\ [](\A sender \in Addr, K \in ThresholdProbes :
            setThresholdRevert(sender, K) =
               IF K < MIN_THRESHOLD \/ K > ActiveWeight(sender)
               THEN "InvalidThreshold" ELSE "none")
    /\ [][\A a \in Addr :
            thresholds'[a] # thresholds[a] =>
               \/ \E id \in DOMAIN recoveryRequests :
                     Executes(id) /\ recoveryRequests[id].newOwner = a
               \/ /\ thresholds'[a] >= MIN_THRESHOLD
                  /\ thresholds'[a] <= ActiveWeight(a)
                  /\ setThreshold(a, thresholds'[a])]_vars

\* an account that has set its threshold and whose removed guardian carries
\* weight that a threshold may no longer use
C26_Witness ==
    \E a \in Addr :
        /\ thresholds[a] >= MIN_THRESHOLD
        /\ MIN_THRESHOLD <= ActiveWeight(a)
        /\ ActiveWeight(a) < ListedWeight(a)

\* C27: the guardian list and the threshold of an account change only by
\* a call of addGuardian, removeGuardian or setThreshold made by that account.
C27_OnlyOwnerChangesGuardiansAndThreshold ==
    [][\A b \in Addr :
          (guardians'[b] # guardians[b] \/ thresholds'[b] # thresholds[b]) =>
             \/ \E gw \in GuardianInputs : addGuardian(b, gw[1], gw[2])
             \/ \E guardian \in GuardianAddrs : removeGuardian(b, guardian)
             \/ \E K \in ThresholdProbes : setThreshold(b, K)]_vars

\* some request of the owner is cancelled and none is pending
CancelledAndIdle(owner) ==
    /\ \E id \in DOMAIN recoveryRequests :
          recoveryRequests[id].owner = owner /\ recoveryRequests[id].cancelled
    /\ ~\E id \in DOMAIN recoveryRequests :
          recoveryRequests[id].owner = owner /\ Pending(id)

\* C28: once a request of an owner is cancelled (and none is pending),
\* initiateRecovery for that owner by any active guardian goes through; every
\* initiateRecovery creates the request with the next id (ids are 1, 2, ...
\* and the older requests stay as they are), approvalWeight 0, no approvals
\* and executeAfter = block.timestamp + RECOVERY_DELAY; an active guardian who
\* has not approved a pending request can approve it, whatever it approved
\* before.
C28_FreshRequestAfterCancel ==
    /\ [](/\ DOMAIN recoveryRequests = 1 .. recoveryCount
          /\ \A owner \in Addr :
                CancelledAndIdle(owner) =>
                   \A sender \in ActiveGuardianAddrs(owner), newOwner \in Addr \ {owner} :
                      initiateRecoveryRevert(sender, owner, newOwner) = "none"
          /\ \A id \in DOMAIN recoveryRequests :
                Pending(id) =>
                   \A sender \in ActiveGuardianAddrs(recoveryRequests[id].owner)
                                    \ recoveryRequests[id].hasApproved :
                      approveRecoveryRevert(sender, id) = "none")
    /\ [][recoveryCount' # recoveryCount =>
            /\ recoveryCount' = recoveryCount + 1
            /\ \A id \in 1 .. recoveryCount : recoveryRequests'[id] = recoveryRequests[id]
            /\ recoveryRequests'[recoveryCount'].approvalWeight = 0
            /\ recoveryRequests'[recoveryCount'].hasApproved = {}
            /\ recoveryRequests'[recoveryCount'].executeAfter = blockTimestamp + RECOVERY_DELAY
            /\ ~recoveryRequests'[recoveryCount'].executed
            /\ ~recoveryRequests'[recoveryCount'].cancelled]_vars

\* a cancelled request and a later pending one of the same owner, both
\* approved by the same guardian, the later one with a later executeAfter
C28_Witness ==
    \E id1, id2 \in DOMAIN recoveryRequests :
        /\ id1 < id2
        /\ recoveryRequests[id1].owner = recoveryRequests[id2].owner
        /\ recoveryRequests[id1].cancelled
        /\ Pending(id2)
        /\ recoveryRequests[id1].hasApproved \cap recoveryRequests[id2].hasApproved # {}
        /\ recoveryRequests[id2].executeAfter > recoveryRequests[id1].executeAfter

\* C29: while a request is pending its threshold and executeAfter stay as
\* initiateRecovery set them, and its approvalWeight changes only by an
\* approveRecovery, which adds the approver's weight; a step that changes a
\* guardian list or a threshold changes a request only by executing it; and
\* a pending request whose time lock is over and whose approvalWeight is at
\* least its threshold can be executed whoever is a guardian by then.
C29_PendingRequestIsFrozen ==
    /\ [](\A id \in DOMAIN recoveryRequests :
            (/\ Pending(id)
             /\ blockTimestamp >= recoveryRequests[id].executeAfter
             /\ recoveryRequests[id].approvalWeight >= recoveryRequests[id].threshold)
               => executeRecoveryRevert(id) = "none")
    /\ [][\A id \in DOMAIN recoveryRequests :
            Pending(id) =>
               /\ recoveryRequests'[id].threshold = recoveryRequests[id].threshold
               /\ recoveryRequests'[id].executeAfter = recoveryRequests[id].executeAfter
               /\ recoveryRequests'[id].approvalWeight # recoveryRequests[id].approvalWeight
                     => \E sender \in Addr : approveRecovery(sender, id)
               /\ (guardians' # guardians \/ thresholds' # thresholds)
                     => \/ Executes(id)
                        \/ recoveryRequests'[id] = recoveryRequests[id]]_vars

\* an executed request that needed the approval of an account that is no
\* longer an active guardian of the owner
C29_Witness ==
    \E id \in DOMAIN recoveryRequests :
        /\ recoveryRequests[id].executed
        /\ \E g \in recoveryRequests[id].hasApproved :
              /\ g \notin ActiveGuardianAddrs(recoveryRequests[id].owner)
              /\ recoveryRequests[id].approvalWeight - InputWeight(g)
                    < recoveryRequests[id].threshold

\* the session's status says that its threshold is met
SessionThresholdMet(session) == session.status = "ready"

\* the distinct guardians a session has collected
CollectedGuardians(session) ==
    {session.collectedShares[i] : i \in DOMAIN session.collectedShares}

\* C21: a session that submitShare has written is "ready" exactly when the
\* number of distinct guardians in collectedShares is at least its threshold,
\* whatever their weights; a request's approvalWeight is the summed weight of
\* its approvers, and once the time lock is over executeRecovery goes through
\* exactly when that sum is at least the request's threshold.
C21_CountVersusWeight ==
    /\ \A i \in DOMAIN sessionsStore :
          sessionsStore[i].status \in {"pending", "collecting", "ready"} =>
             (SessionThresholdMet(sessionsStore[i])
                <=> Cardinality(CollectedGuardians(sessionsStore[i]))
                       >= sessionsStore[i].threshold)
    /\ \A id \in DOMAIN recoveryRequests :
          Pending(id) =>
             /\ recoveryRequests[id].approvalWeight
                   = SumInputWeights(recoveryRequests[id].hasApproved)
             /\ blockTimestamp >= recoveryRequests[id].executeAfter =>
                   (executeRecoveryRevert(id) = "none"
                      <=> SumInputWeights(recoveryRequests[id].hasApproved)
                             >= recoveryRequests[id].threshold)

\* weights 3, 1, 1 and threshold 3: only the guardian of weight 3 has acted;
\* the request meets its threshold, the session is still collecting
C21_Witness ==
    /\ \E id \in DOMAIN recoveryRequests :
          /\ Pending(id)
          /\ recoveryRequests[id].threshold = WeightedThreshold
          /\ recoveryRequests[id].hasApproved = {2}
          /\ recoveryRequests[id].approvalWeight >= recoveryRequests[id].threshold
    /\ \E i \in DOMAIN sessionsStore :
          /\ sessionsStore[i].threshold = WeightedThreshold
          /\ sessionsStore[i].collectedShares = <<"g1">>
          /\ sessionsStore[i].status = "collecting"

\* the guardians whose share submitShare has stored for the session
SubmittedGuardians(sessionId) ==
    {sharesStore[sessionId][i][1] : i \in DOMAIN sharesStore[sessionId]}

\* at least threshold distinct guardians have submitted a share to session 1,
\* the session is neither cancelled nor executed and its time lock is over
ThresholdSubmittedAndUnlocked ==
    LET session == FindSession(sessionsStore, 1)
    IN  /\ session # NoSession
        /\ session.status \notin {"executed", "cancelled"}
        /\ Cardinality(SubmittedGuardians(1)) >= session.threshold
        /\ now >= session.executeAfter

\* C22: once threshold distinct guardians have submitted a share to the
\* session and its time lock is over, the caller that keeps polling
\* checkReadiness receives true (after which its executeRecovery marks the
\* session executed).
C22_PollerEventuallyReceivesTrue ==
    ThresholdSubmittedAndUnlocked
       ~> (ReceivedTrue(Poller) \/ FindSession(sessionsStore, 1).status = "executed")

\* C24: splitSecret fails and returns no shares when the secret is empty, the
\* threshold is below 2, more than 255 shares are asked for or the threshold
\* exceeds the number of shares, and otherwise returns as many shares as asked
\* for; combineShares fails when it is given fewer than 2 shares, a share
\* shorter than 2 bytes or a share whose first byte is not in 1 .. 255.
C24_ShamirValidatesInputs ==
    /\ shamir.op = "splitSecret" =>
          IF \/ Len(shamir.secret) = 0
             \/ shamir.threshold < 2
             \/ shamir.totalShares > 255
             \/ shamir.threshold > shamir.totalShares
          THEN ~shamir.result.ok /\ shamir.result.shares = <<>>
          ELSE shamir.result.ok /\ Len(shamir.result.shares) = shamir.totalShares
    /\ (/\ shamir.op = "combineShares"
        /\ \/ Len(shamir.shares) < 2
           \/ \E i \in DOMAIN shamir.shares :
                 \/ Len(shamir.shares[i]) < 2
                 \/ shamir.shares[i][1] \notin 1 .. 255)
          => ~shamir.result.ok /\ shamir.result.secret = <<>>

\* combineShares has refused two shares of two bytes because one of them
\* starts with 0
C24_Witness ==
    /\ shamir.op = "combineShares"
    /\ Len(shamir.shares) = 2
    /\ \A i \in DOMAIN shamir.shares : Len(shamir.shares[i]) = 2
    /\ \E i \in DOMAIN shamir.shares : shamir.shares[i][1] = 0
    /\ ~shamir.result.ok

(***************************************************************************)
(* Properties of the orchestrator                                          *)
(***************************************************************************)
StoredIds == {sessionsStore[i].id : i \in DOMAIN sessionsStore}

\* caller p returns from op in this step
Returns(p, op) ==
    /\ calls[p].pc \notin {"idle", "done"}
    /\ calls[p].op = op
    /\ calls'[p].pc = "done"

\* C1: a session whose stored status is cancelled never becomes executed, and
\* no executeRecovery on it returns success, however many shares it has
\* collected and however late the call.
C1_CancelledNeverExecuted ==
    [][\A id \in StoredIds :
          FindSession(sessionsStore, id).status = "cancelled" =>
             /\ FindSession(sessionsStore', id).status # "executed"
             /\ \A p \in Procs :
                   ~(Returns(p, "executeRecovery") /\ calls[p].sessionId = id /\ calls'[p].success)]_vars

\* C3: executeRecovery returns success, with the secret combined from the
\* stored shares, only if the session it read when called has at least
\* threshold guardians in collectedShares and now >= executeAfter; executeAfter
\* is initiatedAt + 7 days, set when the session is created (with status
\* pending) and never changed.  When the threshold is unmet or the time-lock
\* has not elapsed the call returns an error and writes nothing.
C3_ExecuteNeedsSharesAndTimeLock ==
    /\ [](\A i \in DOMAIN sessionsStore :
            sessionsStore[i].executeAfter = sessionsStore[i].initiatedAt + RECOVERY_DELAY_MS)
    /\ [][/\ \A id \in StoredIds \cap StoredIds' :
                FindSession(sessionsStore', id).executeAfter
                   = FindSession(sessionsStore, id).executeAfter
          /\ \A p \in Procs :
                /\ (calls[p].pc = "initiate_check" /\ calls'[p].pc = "initiate_save") =>
                      /\ calls'[p].session.status = "pending"
                      /\ calls'[p].session.initiatedAt = now
                      /\ calls'[p].session.executeAfter = now + RECOVERY_DELAY_MS
                /\ (calls[p].pc = "initiate_save" /\ calls'[p].pc = "done") =>
                      FindSession(sessionsStore', calls[p].sessionId) = calls[p].session
                /\ (calls[p].pc \in {"idle", "done"} /\ calls'[p].pc = "execute_check")
                      => calls'[p].session = FindSession(sessionsStore, calls'[p].sessionId)
                /\ (Returns(p, "executeRecovery") /\ calls'[p].success) =>
                      /\ calls[p].session.id = calls[p].sessionId
                      /\ Len(calls[p].session.collectedShares) >= calls[p].session.threshold
                      /\ now >= calls[p].session.executeAfter
                      /\ calls[p].session.executeAfter
                            = calls[p].session.initiatedAt + RECOVERY_DELAY_MS
                      /\ calls'[p].secret # <<>>
                /\ (/\ calls[p].pc = "execute_check"
                    /\ calls'[p] # calls[p]
                    /\ \/ Len(calls[p].session.collectedShares) < calls[p].session.threshold
                       \/ now < calls[p].session.executeAfter) =>
                      /\ calls'[p].pc = "done"
                      /\ ~calls'[p].success
                      /\ calls'[p].secret = <<>>
                      /\ sessionsStore' = sessionsStore
                      /\ sharesStore' = sharesStore]_vars

\* executeRecovery has returned the secret in the very millisecond the
\* time-lock of the session expired
C3_Witness ==
    \E p \in Procs, i \in DOMAIN sessionsStore :
        /\ calls[p].pc = "done"
        /\ calls[p].op = "executeRecovery"
        /\ calls[p].success
        /\ sessionsStore[i].id = calls[p].sessionId
        /\ sessionsStore[i].status = "executed"
        /\ now = sessionsStore[i].executeAfter
        /\ Len(sessionsStore[i].collectedShares) >= sessionsStore[i].threshold

\* a session that is neither executed nor cancelled
IsActiveSession(s) == s.status # "executed" /\ s.status # "cancelled"

\* C15: the store never holds two sessions of the same owner that are both
\* neither executed nor cancelled.
C15_OneActiveSessionPerOwner ==
    \A i \in DOMAIN sessionsStore, j \in DOMAIN sessionsStore :
        (/\ i # j
         /\ sessionsStore[i].userAddress = sessionsStore[j].userAddress
         /\ IsActiveSession(sessionsStore[i]))
           => ~IsActiveSession(sessionsStore[j])

\* C16: the save that ends a successful submitShare keeps every guardian the
\* stored session already lists: a submission that another call has saved
\* since this call read the session is not lost.
C16_NoSubmissionLost ==
    [][\A p \in Procs :
          (calls[p].pc = "submit_save" /\ calls'[p].pc = "done") =>
             LET before == FindSession(sessionsStore, calls[p].sessionId)
                 after == FindSession(sessionsStore', calls[p].sessionId)
             IN  \A i \in DOMAIN before.collectedShares :
                    Includes(after.collectedShares, before.collectedShares[i])]_vars

\* the ids of the active guardians of an owner that have the given address
ActiveGuardianIds(userAddress, guardianAddress) ==
    {GMGuardianList[k].id : k \in {i \in DOMAIN GMGuardianList :
        /\ ToLowerCase(userAddress) = "0xa1"
        /\ GMGuardianList[i].status = "active"
        /\ ToLowerCase(GMGuardianList[i].address) = ToLowerCase(guardianAddress)}}

\* C17: submitShare goes past its checks only for a stored session that is
\* neither executed nor cancelled, called with the address of an active
\* guardian of its owner who is not yet in collectedShares; it returns success
\* only after that, and its save appends exactly that guardian's id.  A
\* guardian already in collectedShares is refused whatever share it sends,
\* with nothing stored, so collectedShares never lists a guardian twice.
C17_SubmitShareOncePerGuardian ==
    /\ [](\A i \in DOMAIN sessionsStore :
            \A j \in DOMAIN sessionsStore[i].collectedShares,
               k \in DOMAIN sessionsStore[i].collectedShares :
                  j # k => sessionsStore[i].collectedShares[j] # sessionsStore[i].collectedShares[k])
    /\ [][\A p \in Procs :
            LET stored == FindSession(sessionsStore, calls[p].sessionId)
            IN  /\ (calls[p].pc = "submit_check" /\ calls'[p].pc = "submit_status") =>
                      /\ stored # NoSession
                      /\ stored.status \notin {"executed", "cancelled"}
                      /\ \E g \in ActiveGuardianIds(stored.userAddress, calls[p].guardianId) :
                            /\ ~Includes(stored.collectedShares, g)
                            /\ calls'[p].guardianId = g
                /\ (/\ calls[p].pc = "submit_check"
                    /\ calls'[p] # calls[p]
                    /\ \E g \in ActiveGuardianIds(stored.userAddress, calls[p].guardianId) :
                          Includes(stored.collectedShares, g)) =>
                      /\ calls'[p].pc = "done"
                      /\ ~calls'[p].success
                      /\ sessionsStore' = sessionsStore
                      /\ sharesStore' = sharesStore
                /\ (Returns(p, "submitShare") /\ calls'[p].success) =>
                      /\ calls[p].pc = "submit_save"
                      /\ stored # NoSession
                      /\ ~Includes(stored.collectedShares, calls[p].guardianId)
                      /\ FindSession(sessionsStore', calls[p].sessionId).collectedShares
                            = Append(stored.collectedShares, calls[p].guardianId)]_vars

\* a guardian whose share is stored has submitted again and has been refused;
\* the session lists two guardians, each once
C17_Witness ==
    \E p \in Procs :
        /\ calls[p].pc = "done"
        /\ calls[p].op = "submitShare"
        /\ calls[p].error = "Share already submitted"
        /\ Len(FindSession(sessionsStore, calls[p].sessionId).collectedShares) = 2

\* the edges of the session state machine
StatusEdges ==
    {<<"pending", "collecting">>, <<"collecting", "ready">>,
     <<"ready", "executable">>, <<"executable", "executed">>}
       \cup {<<st, "cancelled">> : st \in {"pending", "collecting", "ready", "executable"}}

\* C18: whenever the stored status of a session changes, the change is an
\* edge of pending -> collecting -> ready -> executable -> executed, or a move
\* to cancelled from a status that is neither executed nor cancelled.
C18_StatusFollowsStateMachine ==
    [][\A id \in StoredIds \cap StoredIds' :
          LET before == FindSession(sessionsStore, id).status
              after == FindSession(sessionsStore', id).status
          IN  before # after => <<before, after>> \in StatusEdges]_vars

\* C19: a checkReadiness call writes at most once, and what it writes is the
\* session it was called for with status executable in place of ready; it
\* does so exactly when that session is ready, has at least threshold
\* guardians in collectedShares and now >= executeAfter.  It returns true iff
\* the stored status after the call is executable.  On any other session, or
\* on none, it writes nothing, and a step of the clock writes nothing.
C19_CheckReadinessOnlyPromotes ==
    [][/\ now' # now => (sessionsStore' = sessionsStore /\ sharesStore' = sharesStore)
       /\ \A p \in Procs :
             LET stored == FindSession(sessionsStore, calls[p].sessionId)
                 due == /\ stored.status = "ready"
                        /\ Len(stored.collectedShares) >= stored.threshold
                        /\ now >= stored.executeAfter
             IN  /\ (calls[p].pc = "ready_check" /\ calls'[p] # calls[p]) =>
                       /\ sessionsStore' = sessionsStore
                       /\ sharesStore' = sharesStore
                       /\ due <=> calls'[p].pc = "ready_save"
                       /\ ~due => (calls'[p].pc = "done"
                                     /\ calls'[p].success = (stored.status = "executable"))
                 /\ (calls[p].pc = "ready_save" /\ calls'[p] # calls[p]) =>
                       /\ stored.status = "ready"
                       /\ sessionsStore' = PutSession(sessionsStore,
                                                       [stored EXCEPT !.status = "executable"])
                       /\ sharesStore' = sharesStore
                       /\ calls'[p].pc = "done"
                       /\ calls'[p].success
                 /\ (calls'[p].op = "checkReadiness" /\ calls'[p] # calls[p]) =>
                       /\ \A id \in StoredIds' \ {calls'[p].sessionId} :
                             /\ id \in StoredIds
                             /\ FindSession(sessionsStore', id) = FindSession(sessionsStore, id)
                       /\ StoredIds' = StoredIds
                 /\ Returns(p, "checkReadiness") =>
                       calls'[p].success
                          = (FindSession(sessionsStore', calls[p].sessionId).status = "executable")]_vars

\* checkReadiness has promoted a session and returned true, in the very
\* millisecond the time-lock expired
C19_Witness ==
    \E p \in Procs :
        /\ calls[p].pc = "done"
        /\ calls[p].op = "checkReadiness"
        /\ calls[p].success
        /\ FindSession(sessionsStore, calls[p].sessionId).status = "executable"
        /\ now = FindSession(sessionsStore, calls[p].sessionId).executeAfter

MutatingOps == {"initiateRecovery", "submitShare", "executeRecovery", "cancelRecovery"}

\* C20: a call of initiateRecovery, submitShare, executeRecovery or
\* cancelRecovery that ends in an error has written neither the sessions nor
\* the shares: the step that returns the error writes nothing, every step
\* that writes belongs to a call that is past its checks, and a call past its
\* checks returns success.
C20_FailedCallWritesNothing ==
    [][/\ \A p \in Procs :
             /\ (/\ calls[p].op \in MutatingOps
                 /\ Returns(p, calls[p].op)
                 /\ ~calls'[p].success) =>
                    /\ sessionsStore' = sessionsStore
                    /\ sharesStore' = sharesStore
                    /\ calls[p].pc \in {"initiate_check", "submit_check", "execute_check",
                                         "execute_combine", "cancel_check"}
             /\ (calls[p].pc \in {"idle", "done"} /\ calls'[p].pc = "done"
                    /\ calls'[p] # calls[p]) =>
                    (~calls'[p].success /\ sessionsStore' = sessionsStore
                                        /\ sharesStore' = sharesStore)
             /\ (calls[p].pc = "submit_status" /\ calls'[p] # calls[p]) =>
                    calls'[p].pc = "submit_save"
             /\ (/\ calls[p].pc \in {"initiate_save", "submit_save", "execute_save", "cancel_save"}
                 /\ calls'[p] # calls[p]) =>
                    (calls'[p].pc = "done" /\ calls'[p].success)
       /\ (sessionsStore' # sessionsStore \/ sharesStore' # sharesStore) =>
             \E p \in Procs :
                \/ calls[p].pc = "submit_check" /\ calls'[p].pc = "submit_status"
                \/ /\ calls[p].pc \in {"initiate_save", "submit_save", "ready_save",
                                         "execute_save", "cancel_save"}
                   /\ calls'[p].pc = "done"
                   /\ calls'[p].success]_vars

\* executeRecovery has been refused for the time-lock on a session that has
\* its shares, and the session is stored as it was
C20_Witness ==
    \E p \in Procs :
        /\ calls[p].pc = "done"
        /\ calls[p].op = "executeRecovery"
        /\ ~calls[p].success
        /\ calls[p].error = "Time-lock not expired"
        /\ FindSession(sessionsStore, calls[p].sessionId).status = "ready"
        /\ Len(sharesStore[calls[p].sessionId]) = 2


====
